---- MODULE Spec2Model ----
(***************************************************************************)
(* tyl-errors: error taxonomy, error categories with their built-in        *)
(* backoff, the process-wide ErrorSettings cache and the RetryPolicy       *)
(* backoff calculator.                                                     *)
(*                                                                         *)
(* Durations are whole milliseconds.  A usize is four 16-bit limbs, most   *)
(* significant first, so that every value of the 64-bit attempt type and   *)
(* the `as u32` / `as i32` casts of the source keep their width.           *)
(***************************************************************************)
EXTENDS Integers, Sequences, FiniteSets, TLC

VARIABLES
    env,        \* the process environment: variable name -> Option<String>
    settings,   \* the OnceLock<ErrorSettings> behind ErrorSettings::global()
    err,        \* the TylError value the caller holds
    policy,     \* the RetryPolicy value the caller holds
    tries,      \* the attempt number the caller has reached
    last,       \* the last call made and what it returned
    ctx,        \* the ErrorContext value the caller holds
    calls,      \* the calls made on ctx since it was created, oldest first
    wire,       \* the JSON value the caller last serialized
    back,       \* the TylError the caller last deserialized
    once,       \* the state of the OnceLock's Once, and the closures it has run
    threads,    \* per thread: where it is inside ErrorSettings::global()
    stderr,     \* the lines written to the standard error stream, oldest first
    ctxWire,    \* the JSON value the caller last serialized an ErrorContext to
    ctxBack,    \* the ErrorContext the caller last deserialized
    retryLoop   \* the caller's retry loop: where it is, what it asks, its attempt, its retries

vars ==
    <<env, settings, err, policy, tries, last, ctx, calls, wire, back, once, threads, stderr,
      ctxWire, ctxBack, retryLoop>>

\* what the calls on the context, the serializer and the other threads own
contextVars == <<ctx, calls>>
serdeVars == <<wire, back>>
threadVars == <<once, threads>>
logVars == <<stderr>>
contextSerdeVars == <<ctxWire, ctxBack>>
loopVars == <<retryLoop>>

(***************************************************************************)
(* Bounds of the model.                                                    *)
(***************************************************************************)
\* attempts 0..MaxAttempt are enumerated one by one (plus HugeAttempts)
MaxAttempt == 12
\* at most MaxCalls modifying calls are made on one ErrorContext
MaxCalls == 4
\* log_if_enabled is called while the stream holds fewer than MaxLines lines
MaxLines == 1

(***************************************************************************)
(* usize                                                                   *)
(***************************************************************************)
Limb == 2^16

\* the usize holding the small number n (0 <= n < 2^31)
USIZE(n) == <<0, 0, n \div Limb, n % Limb>>

USIZE_MAX == <<Limb - 1, Limb - 1, Limb - 1, Limb - 1>>

\* a < b on usize
ULt(a, b) ==
    \/ a[1] < b[1]
    \/ a[1] = b[1] /\ a[2] < b[2]
    \/ a[1] = b[1] /\ a[2] = b[2] /\ a[3] < b[3]
    \/ a[1] = b[1] /\ a[2] = b[2] /\ a[3] = b[3] /\ a[4] < b[4]

\* a.min(k) for a small k, as a number
UMin(a, k) ==
    IF a[1] = 0 /\ a[2] = 0 /\ a[3] = 0 /\ a[4] < k THEN a[4] ELSE k

\* a - 1 for a # 0, borrowing across the limbs
USubOne(a) ==
    IF a[4] > 0 THEN <<a[1], a[2], a[3], a[4] - 1>>
    ELSE IF a[3] > 0 THEN <<a[1], a[2], a[3] - 1, Limb - 1>>
    ELSE IF a[2] > 0 THEN <<a[1], a[2] - 1, Limb - 1, Limb - 1>>
    ELSE <<a[1] - 1, Limb - 1, Limb - 1, Limb - 1>>

\* a + 1 for a # usize::MAX, carrying across the limbs
UAddOne(a) ==
    IF a[4] < Limb - 1 THEN <<a[1], a[2], a[3], a[4] + 1>>
    ELSE IF a[3] < Limb - 1 THEN <<a[1], a[2], a[3] + 1, 0>>
    ELSE IF a[2] < Limb - 1 THEN <<a[1], a[2] + 1, 0, 0>>
    ELSE <<a[1] + 1, 0, 0, 0>>

\* `a as i32`: the low 32 bits, read as two's complement
AsI32(a) ==
    IF a[3] >= Limb \div 2 THEN (a[3] - Limb) * Limb + a[4]
    ELSE a[3] * Limb + a[4]

\* a * k + c in u64 for small k and c (below 2^15): the low 64 bits, and what
\* was carried out of them
UMulAddSmall(a, k, c) ==
    LET p4 == a[4] * k + c
        p3 == a[3] * k + p4 \div Limb
        p2 == a[2] * k + p3 \div Limb
        p1 == a[1] * k + p2 \div Limb
    IN  [carry |-> p1 \div Limb, limbs |-> <<p1 % Limb, p2 % Limb, p3 % Limb, p4 % Limb>>]

UMulSmall(a, k) == UMulAddSmall(a, k, 0)

\* a / k and a % k in u64 for a small k (0 < k < 2^15)
UDivSmall(a, k) ==
    LET t1 == a[1]
        t2 == (t1 % k) * Limb + a[2]
        t3 == (t2 % k) * Limb + a[3]
        t4 == (t3 % k) * Limb + a[4]
    IN  [quot |-> <<t1 \div k, t2 \div k, t3 \div k, t4 \div k>>, rem |-> t4 % k]

\* A Duration is its number of milliseconds while that number is below 2^31,
\* and the record of its whole seconds (a u64) and the milliseconds of its
\* fraction from there on: every Duration has one representation.
Duration_from_secs(secs) ==
    IF secs[1] = 0 /\ secs[2] = 0 /\ secs[3] <= 32 /\ secs[3] * Limb + secs[4] <= 2147483
    THEN (secs[3] * Limb + secs[4]) * 1000
    ELSE [secs |-> secs, subsec_millis |-> 0]

Duration_from_millis(millis) ==
    IF millis[1] = 0 /\ millis[2] = 0 /\ millis[3] < Limb \div 2
    THEN millis[3] * Limb + millis[4]
    ELSE [secs |-> UDivSmall(millis, 1000).quot, subsec_millis |-> UDivSmall(millis, 1000).rem]

\* `a * k` on u64 that exceeds u64::MAX: a panic in a build with overflow
\* checks (the test profile), the Duration of the wrapped product without
Overflowed(wrapped) == [overflow |-> TRUE, wrapped |-> wrapped]

\* attempts beyond the enumerated ones: 2^31, 2^31 + 1, 2^32 + 3, usize::MAX
HugeAttempts ==
    { <<0, 0, Limb \div 2, 0>>, <<0, 0, Limb \div 2, 1>>, <<0, 1, 0, 3>>, USIZE_MAX }

SmallAttempts == { USIZE(n) : n \in 0..MaxAttempt }

Attempts == SmallAttempts \cup HugeAttempts

(***************************************************************************)
(* category.rs: BuiltinCategory, ErrorClassifier, ErrorCategory            *)
(***************************************************************************)
BuiltinCategory ==
    { "Transient", "Permanent", "ResourceExhaustion", "Network", "Authentication",
      "Validation", "Internal", "ServiceUnavailable", "Unknown" }

BuiltinCategory_is_retriable_ArmMissing(b) ==
    b \in { "Transient", "Network", "ServiceUnavailable" }

BuiltinCategory_is_retriable(b) ==
    b \in { "Transient", "Network", "ServiceUnavailable", "ResourceExhaustion" }

\* base_delay of BuiltinCategory::retry_delay, in milliseconds
BuiltinBaseDelay(b) ==
    CASE b = "Transient" -> 100
      [] b = "Network" -> 500
      [] b = "ServiceUnavailable" -> 1 * 1000
      [] b = "ResourceExhaustion" -> 5 * 1000
      [] OTHER -> 100

\* 2_u32.pow(e), for e < 31: the result is below the 32-bit width
RECURSIVE U32Pow2(_)
U32Pow2(e) == IF e = 0 THEN 1 ELSE 2 * U32Pow2(e - 1)

BuiltinExponent_CastOnly(attempt) ==
    IF attempt[3] = 0 /\ attempt[4] < 32 THEN attempt[4] ELSE 32

\* attempt.min(10) as u32: the exponent handed to 2_u32.pow; the minimum is
\* taken on usize, so the cast truncates nothing
BuiltinExponent(attempt) == UMin(attempt, 10)

\* 2_u32.pow(e) exceeds u32::MAX (a panic with overflow checks, a wrap without)
U32PowOverflows(e) == e >= 32

\* Duration * u32 panics when the product's seconds exceed u64::MAX; here both
\* factors are below 2^16, and the product is compared with i32::MAX
DurationMulOverflows(millis, k) == millis >= Limb \/ k >= Limb \/ millis * k > 2147483647

\* some step of BuiltinCategory::retry_delay overflows
BuiltinCategory_retry_delay_overflows(b, attempt) ==
    \/ U32PowOverflows(BuiltinExponent(attempt))
    \/ DurationMulOverflows(BuiltinBaseDelay(b),
                            IF BuiltinExponent(attempt) >= 6 THEN 60
                            ELSE U32Pow2(BuiltinExponent(attempt)))

BuiltinCategory_retry_delay_Uncapped(b, attempt) ==
    BuiltinBaseDelay(b) * U32Pow2(UMin(attempt, 10))

BuiltinCategory_retry_delay_NoGrowth(b, attempt) ==
    BuiltinBaseDelay(b) * (IF UMin(attempt, 10) >= 6 THEN 60 ELSE 1)

BuiltinCategory_retry_delay_PlusOne(b, attempt) ==
    LET multiplier == U32Pow2(UMin(attempt, 10) + 1)
    IN  BuiltinBaseDelay(b) * (IF multiplier < 60 THEN multiplier ELSE 60)

BuiltinCategory_retry_delay(b, attempt) ==
    LET multiplier == U32Pow2(UMin(attempt, 10))
    IN  BuiltinBaseDelay(b) * (IF multiplier < 60 THEN multiplier ELSE 60)

BuiltinCategory_category_name(b) == b

\* The implementors of ErrorClassifier: BuiltinCategory itself, and the
\* caller-supplied classifiers of the repository's tests.
BuiltinClassifier(b) == [impl |-> "BuiltinCategory", builtin |-> b]

PaymentProcessingError == [impl |-> "PaymentProcessingError", builtin |-> "-"]
BusinessLogicError == [impl |-> "BusinessLogicError", builtin |-> "-"]
TestCategory == [impl |-> "TestCategory", builtin |-> "-"]

UserClassifiers == { PaymentProcessingError, BusinessLogicError, TestCategory }

\* dyn ErrorClassifier::is_retriable
Classifier_is_retriable(c) ==
    CASE c.impl = "BuiltinCategory" -> BuiltinCategory_is_retriable(c.builtin)
      [] c.impl = "PaymentProcessingError" -> TRUE
      [] c.impl = "BusinessLogicError" -> FALSE
      [] c.impl = "TestCategory" -> TRUE

\* dyn ErrorClassifier::retry_delay; the user classifiers multiply the attempt
\* in u64: Duration::from_secs(attempt as u64 * 2), Duration::from_millis(0),
\* Duration::from_millis(attempt as u64 * 100)
Classifier_retry_delay(c, attempt) ==
    CASE c.impl = "BuiltinCategory" -> BuiltinCategory_retry_delay(c.builtin, attempt)
      [] c.impl = "PaymentProcessingError" ->
            IF UMulSmall(attempt, 2).carry > 0
            THEN Overflowed(Duration_from_secs(UMulSmall(attempt, 2).limbs))
            ELSE Duration_from_secs(UMulSmall(attempt, 2).limbs)
      [] c.impl = "BusinessLogicError" -> 0
      [] c.impl = "TestCategory" ->
            IF UMulSmall(attempt, 100).carry > 0
            THEN Overflowed(Duration_from_millis(UMulSmall(attempt, 100).limbs))
            ELSE Duration_from_millis(UMulSmall(attempt, 100).limbs)

\* dyn ErrorClassifier::category_name
Classifier_category_name(c) ==
    CASE c.impl = "BuiltinCategory" -> BuiltinCategory_category_name(c.builtin)
      [] c.impl = "PaymentProcessingError" -> "PaymentProcessing"
      [] c.impl = "BusinessLogicError" -> "BusinessLogic"
      [] c.impl = "TestCategory" -> "Test"

\* clone_box / Clone for Box<dyn ErrorClassifier>: the classifiers hold no state
Classifier_clone(c) == c

default_classifier_Internal == BuiltinClassifier("Internal")

default_classifier == BuiltinClassifier("Unknown")

\* enum ErrorCategory { Builtin(BuiltinCategory), Custom(Box<dyn ErrorClassifier>) }
Builtin(b) == [kind |-> "Builtin", builtin |-> b, classifier |-> BuiltinClassifier(b)]
Custom(c) == [kind |-> "Custom", builtin |-> "-", classifier |-> c]

NoCategory == [kind |-> "None", builtin |-> "-", classifier |-> BuiltinClassifier("-")]

ErrorCategory_transient == Builtin("Transient")
ErrorCategory_permanent == Builtin("Permanent")
ErrorCategory_resource_exhaustion == Builtin("ResourceExhaustion")
ErrorCategory_network == Builtin("Network")
ErrorCategory_authentication == Builtin("Authentication")
ErrorCategory_validation == Builtin("Validation")
ErrorCategory_internal == Builtin("Internal")
ErrorCategory_service_unavailable == Builtin("ServiceUnavailable")
ErrorCategory_unknown == Builtin("Unknown")

ErrorCategory_is_retriable(cat) ==
    IF cat.kind = "Builtin" THEN BuiltinCategory_is_retriable(cat.builtin)
    ELSE Classifier_is_retriable(cat.classifier)

ErrorCategory_retry_delay(cat, attempt) ==
    IF cat.kind = "Builtin" THEN BuiltinCategory_retry_delay(cat.builtin, attempt)
    ELSE Classifier_retry_delay(cat.classifier, attempt)

ErrorCategory_category_name_CustomLabel(cat) ==
    IF cat.kind = "Builtin" THEN BuiltinCategory_category_name(cat.builtin)
    ELSE "Custom"

ErrorCategory_category_name(cat) ==
    IF cat.kind = "Builtin" THEN BuiltinCategory_category_name(cat.builtin)
    ELSE Classifier_category_name(cat.classifier)

\* the categories a caller can hold
Categories == { Builtin(b) : b \in BuiltinCategory } \cup { Custom(c) : c \in UserClassifiers }

(***************************************************************************)
(* settings.rs: LogLevel, ErrorSettings                                    *)
(***************************************************************************)
LogLevel_Error == 0
LogLevel_Warn == 1
LogLevel_Info == 2
LogLevel_Debug == 3

\* Strings read from the environment are sequences of characters.  A character
\* is an ASCII character, written as it is, or one of the characters named below
\* by code point: those whose other case holds an ASCII letter, with the
\* characters their mappings produce, and U+00E9 / U+00C9 for the letters beyond
\* ASCII that come in plain pairs.
UpperCase == << "A", "B", "C", "D", "E", "F", "G", "H", "I", "J", "K", "L", "M",
                "N", "O", "P", "Q", "R", "S", "T", "U", "V", "W", "X", "Y", "Z" >>
LowerCase == << "a", "b", "c", "d", "e", "f", "g", "h", "i", "j", "k", "l", "m",
                "n", "o", "p", "q", "r", "s", "t", "u", "v", "w", "x", "y", "z" >>
Digits == << "0", "1", "2", "3", "4", "5", "6", "7", "8", "9" >>

IndexIn(seq, c) == IF \E i \in DOMAIN seq : seq[i] = c
                   THEN CHOOSE i \in DOMAIN seq : seq[i] = c ELSE 0

\* char::to_lowercase: the characters a character lowercases to
char_to_lowercase(c) ==
    CASE IndexIn(UpperCase, c) > 0 -> << LowerCase[IndexIn(UpperCase, c)] >>
      [] c = "U+212A" -> << "k" >>                  \* KELVIN SIGN
      [] c = "U+0130" -> << "i", "U+0307" >>        \* I WITH DOT ABOVE
      [] c = "U+1E9E" -> << "U+00DF" >>             \* CAPITAL SHARP S
      [] c = "U+00C9" -> << "U+00E9" >>             \* E WITH ACUTE
      [] OTHER -> << c >>

\* char::to_uppercase: the characters a character uppercases to
char_to_uppercase(c) ==
    CASE IndexIn(LowerCase, c) > 0 -> << UpperCase[IndexIn(LowerCase, c)] >>
      [] c = "U+0131" -> << "I" >>                  \* DOTLESS I
      [] c = "U+017F" -> << "S" >>                  \* LONG S
      [] c = "U+00DF" -> << "S", "S" >>             \* SHARP S
      [] c = "U+0149" -> << "U+02BC", "N" >>        \* N PRECEDED BY APOSTROPHE
      [] c = "U+01F0" -> << "J", "U+030C" >>        \* J WITH CARON
      [] c = "U+1E96" -> << "H", "U+0331" >>        \* H WITH LINE BELOW
      [] c = "U+1E97" -> << "T", "U+0308" >>        \* T WITH DIAERESIS
      [] c = "U+1E98" -> << "W", "U+030A" >>        \* W WITH RING ABOVE
      [] c = "U+1E99" -> << "Y", "U+030A" >>        \* Y WITH RING ABOVE
      [] c = "U+1E9A" -> << "A", "U+02BE" >>        \* A WITH RIGHT HALF RING
      [] c = "U+FB00" -> << "F", "F" >>             \* LIGATURE FF
      [] c = "U+FB01" -> << "F", "I" >>             \* LIGATURE FI
      [] c = "U+FB02" -> << "F", "L" >>             \* LIGATURE FL
      [] c = "U+FB03" -> << "F", "F", "I" >>        \* LIGATURE FFI
      [] c = "U+FB04" -> << "F", "F", "L" >>        \* LIGATURE FFL
      [] c = "U+FB05" -> << "S", "T" >>             \* LIGATURE LONG S T
      [] c = "U+FB06" -> << "S", "T" >>             \* LIGATURE ST
      [] c = "U+00E9" -> << "U+00C9" >>             \* E WITH ACUTE
      [] OTHER -> << c >>

\* str::to_lowercase / str::to_uppercase: character by character
RECURSIVE to_lowercase(_)
to_lowercase(s) ==
    IF s = <<>> THEN <<>> ELSE char_to_lowercase(Head(s)) \o to_lowercase(Tail(s))
RECURSIVE to_uppercase(_)
to_uppercase(s) ==
    IF s = <<>> THEN <<>> ELSE char_to_uppercase(Head(s)) \o to_uppercase(Tail(s))

\* A variable of the process environment: not set, set to text, or set to
\* bytes that are not valid Unicode.
Unset == [set |-> FALSE, unicode |-> TRUE, val |-> <<>>]
Val(s) == [set |-> TRUE, unicode |-> TRUE, val |-> s]
NotUnicode == [set |-> TRUE, unicode |-> FALSE, val |-> <<>>]

\* std::env::var: Ok(value) for a variable set to valid Unicode, Err(NotPresent)
\* or Err(NotUnicode) otherwise
env_var(v) == [ok |-> v.set /\ v.unicode, value |-> v.val]

\* the digits of str::parse::<usize>(), from the left: the value so far times
\* ten plus the digit, an error as soon as that exceeds usize::MAX
RECURSIVE DecimalValue(_, _)
DecimalValue(acc, s) ==
    IF s = <<>> THEN [ok |-> TRUE, value |-> acc]
    ELSE IF UMulAddSmall(acc, 10, IndexIn(Digits, Head(s)) - 1).carry > 0
    THEN [ok |-> FALSE, value |-> USIZE(0)]
    ELSE DecimalValue(UMulAddSmall(acc, 10, IndexIn(Digits, Head(s)) - 1).limbs, Tail(s))

\* str::parse::<usize>(): an optional '+', then one or more decimal digits that
\* make a number up to usize::MAX
parse_usize(s) ==
    LET digits == IF s # <<>> /\ s[1] = "+" THEN Tail(s) ELSE s
    IN  IF digits # <<>> /\ \A i \in DOMAIN digits : IndexIn(Digits, digits[i]) > 0
        THEN DecimalValue(USIZE(0), digits)
        ELSE [ok |-> FALSE, value |-> USIZE(0)]

\* LogLevel::from_env
LogLevel_from_env(e) ==
    LET level == to_uppercase(env_var(e.TYL_ERROR_LOG_LEVEL).value)
    IN  IF ~env_var(e.TYL_ERROR_LOG_LEVEL).ok THEN [some |-> FALSE, level |-> LogLevel_Error]
        ELSE CASE level = <<"E", "R", "R", "O", "R">> -> [some |-> TRUE, level |-> LogLevel_Error]
               [] level = <<"W", "A", "R", "N">> -> [some |-> TRUE, level |-> LogLevel_Warn]
               [] level = <<"W", "A", "R", "N", "I", "N", "G">> -> [some |-> TRUE, level |-> LogLevel_Warn]
               [] level = <<"I", "N", "F", "O">> -> [some |-> TRUE, level |-> LogLevel_Info]
               [] level = <<"D", "E", "B", "U", "G">> -> [some |-> TRUE, level |-> LogLevel_Debug]
               [] OTHER -> [some |-> FALSE, level |-> LogLevel_Error]

\* the empty OnceLock
Uninitialized ==
    [ init |-> FALSE, backtrace_enabled |-> FALSE, max_retries |-> USIZE(0),
      log_errors |-> FALSE, log_level |-> LogLevel_Error ]

\* the std::env::var calls of the closure ErrorSettings::global() hands to
\* OnceLock::get_or_init, in the order the closure makes them
ClosureReads ==
    { "TYL_ERROR_BACKTRACE", "RUST_BACKTRACE", "TYL_ERROR_MAX_RETRIES", "TYL_ERROR_LOG_ERRORS",
      "TYL_ERROR_LOG_LEVEL" }

\* whoever runs the closure, about to make its first call
ClosureEntry == [pc |-> "TYL_ERROR_BACKTRACE", got |-> Uninitialized]

\* one std::env::var call of the closure and what the closure makes of it: where
\* the closure is and the locals it has after the call at f.pc has read e
Closure_step(f, e) ==
    CASE f.pc = "TYL_ERROR_BACKTRACE" ->
            IF env_var(e.TYL_ERROR_BACKTRACE).ok
            THEN [ pc |-> "TYL_ERROR_MAX_RETRIES",
                   got |-> [f.got EXCEPT !.backtrace_enabled =
                              to_lowercase(env_var(e.TYL_ERROR_BACKTRACE).value)
                                 = <<"t", "r", "u", "e">>] ]
            ELSE [f EXCEPT !.pc = "RUST_BACKTRACE"]
      [] f.pc = "RUST_BACKTRACE" ->
            [ pc |-> "TYL_ERROR_MAX_RETRIES",
              got |-> [f.got EXCEPT !.backtrace_enabled = env_var(e.RUST_BACKTRACE).ok] ]
      [] f.pc = "TYL_ERROR_MAX_RETRIES" ->
            [ pc |-> "TYL_ERROR_LOG_ERRORS",
              got |-> [f.got EXCEPT !.max_retries =
                         IF /\ env_var(e.TYL_ERROR_MAX_RETRIES).ok
                            /\ parse_usize(env_var(e.TYL_ERROR_MAX_RETRIES).value).ok
                         THEN parse_usize(env_var(e.TYL_ERROR_MAX_RETRIES).value).value
                         ELSE USIZE(3)] ]
      [] f.pc = "TYL_ERROR_LOG_ERRORS" ->
            [ pc |-> "TYL_ERROR_LOG_LEVEL",
              got |-> [f.got EXCEPT !.log_errors =
                         IF env_var(e.TYL_ERROR_LOG_ERRORS).ok
                         THEN to_lowercase(env_var(e.TYL_ERROR_LOG_ERRORS).value)
                                 # <<"f", "a", "l", "s", "e">>
                         ELSE TRUE] ]
      [] f.pc = "TYL_ERROR_LOG_LEVEL" ->
            [ pc |-> "loaded",
              got |-> [f.got EXCEPT !.init = TRUE,
                                    !.log_level =
                                       IF LogLevel_from_env(e).some
                                       THEN LogLevel_from_env(e).level ELSE LogLevel_Info] ]

\* the closure from where it is to its end, with nothing writing the
\* environment while it runs
RECURSIVE Closure_run(_, _)
Closure_run(f, e) ==
    IF f.pc \in ClosureReads THEN Closure_run(Closure_step(f, e), e) ELSE f

\* the value of the closure in a process where nothing writes the environment
\* while it runs
LoadSettings(e) == Closure_run(ClosureEntry, e).got

ErrorSettings_global_TakesClosure(cell, f) == f.got

\* ErrorSettings::global(), on return: the cell after the call, given what the
\* caller's closure computed if the caller ran it; a cell that holds a value
\* keeps it; the result of the call is the cell's content
ErrorSettings_global(cell, f) == IF cell.init THEN cell ELSE f.got

(***************************************************************************)
(* error.rs: TylError                                                      *)
(***************************************************************************)
TylError_database(message) == [variant |-> "Database", message |-> message]
TylError_network(message) == [variant |-> "Network", message |-> message]
TylError_validation(field, message) ==
    [variant |-> "Validation", field |-> field, message |-> message]
TylError_not_found(resource, id) ==
    [variant |-> "NotFound", resource |-> resource, id |-> id]
TylError_conflict(message) == [variant |-> "Conflict", message |-> message]
TylError_internal(message) == [variant |-> "Internal", message |-> message]
TylError_configuration(message) == [variant |-> "Configuration", message |-> message]
TylError_not_implemented(feature) == [variant |-> "NotImplemented", feature |-> feature]
TylError_business_logic(message, classifier) ==
    [variant |-> "Custom", message |-> message, classifier |-> classifier]

\* String concatenation, over the strings the callers build: "" is neutral, the
\* other pairs are listed
ConcatTable ==
    { << "Serialization error: ", "timeout", "Serialization error: timeout" >>,
      << "Connection error: ", "timeout", "Connection error: timeout" >>,
      << "Initialization error: ", "timeout", "Initialization error: timeout" >> }

Concat(a, b) ==
    IF b = "" THEN a
    ELSE IF a = "" THEN b
    ELSE (CHOOSE t \in ConcatTable : t[1] = a /\ t[2] = b)[3]

TylError_parsing(message) == [variant |-> "Validation", field |-> "parsing", message |-> message]

TylError_serialization_NoPrefix(message) == [variant |-> "Internal", message |-> message]

TylError_serialization(message) ==
    [variant |-> "Internal", message |-> Concat("Serialization error: ", message)]
TylError_connection(message) ==
    [variant |-> "Network", message |-> Concat("Connection error: ", message)]
TylError_initialization(message) ==
    [variant |-> "Internal", message |-> Concat("Initialization error: ", message)]

\* no error constructed yet
NoError == [variant |-> "None"]

TylError_category_ConflictTransient(e) ==
    CASE e.variant = "Database" -> ErrorCategory_transient
      [] e.variant = "Network" -> ErrorCategory_network
      [] e.variant = "Validation" -> ErrorCategory_validation
      [] e.variant = "NotFound" -> ErrorCategory_permanent
      [] e.variant = "Conflict" -> ErrorCategory_transient
      [] e.variant = "Internal" -> ErrorCategory_internal
      [] e.variant = "Configuration" -> ErrorCategory_permanent
      [] e.variant = "NotImplemented" -> ErrorCategory_permanent
      [] e.variant = "Custom" -> Custom(Classifier_clone(e.classifier))

TylError_category(e) ==
    CASE e.variant = "Database" -> ErrorCategory_transient
      [] e.variant = "Network" -> ErrorCategory_network
      [] e.variant = "Validation" -> ErrorCategory_validation
      [] e.variant = "NotFound" -> ErrorCategory_permanent
      [] e.variant = "Conflict" -> ErrorCategory_permanent
      [] e.variant = "Internal" -> ErrorCategory_internal
      [] e.variant = "Configuration" -> ErrorCategory_permanent
      [] e.variant = "NotImplemented" -> ErrorCategory_permanent
      [] e.variant = "Custom" -> Custom(Classifier_clone(e.classifier))

\* #[derive(Clone)] on TylError: the fields are cloned, the classifier by clone_box
TylError_clone(e) ==
    IF e.variant = "Custom"
    THEN [e EXCEPT !.classifier = Classifier_clone(e.classifier)]
    ELSE e

\* TylError::backtrace_enabled(), log_errors_enabled(), log_level(): the settings
\* cell after the call, f being the caller's closure; the result is the cell's
\* field of that name
TylError_backtrace_enabled(cell, f) == ErrorSettings_global(cell, f)
TylError_log_errors_enabled(cell, f) == ErrorSettings_global(cell, f)
TylError_log_level(cell, f) == ErrorSettings_global(cell, f)

LogLevels == { LogLevel_Error, LogLevel_Warn, LogLevel_Info, LogLevel_Debug }

\* the match on level inside log_if_enabled
LogLevel_name(level) ==
    CASE level = LogLevel_Error -> "ERROR"
      [] level = LogLevel_Warn -> "WARN"
      [] level = LogLevel_Info -> "INFO"
      [] level = LogLevel_Debug -> "DEBUG"

\* eprintln!("[{}] {}", name, self): one line, as the pieces it is formatted from
Eprintln(name, display) == << "[", name, "] " >> \o display

\* TylError::max_retries(): the settings cell after the call; the result is its max_retries
TylError_max_retries(cell, f) == ErrorSettings_global(cell, f)

\* TylError::should_retry: `&&` reads the settings only for a retriable category
TylError_should_retry_cell(e, cell, f) ==
    IF ErrorCategory_is_retriable(TylError_category(e))
    THEN TylError_max_retries(cell, f) ELSE cell

TylError_should_retry_Inclusive(e, attempt, cell, f) ==
    /\ ErrorCategory_is_retriable(TylError_category(e))
    /\ ~ULt(TylError_max_retries(cell, f).max_retries, attempt)

TylError_should_retry(e, attempt, cell, f) ==
    /\ ErrorCategory_is_retriable(TylError_category(e))
    /\ ULt(attempt, TylError_max_retries(cell, f).max_retries)

\* retry.rs: impl RetryableError for TylError
RetryableError_should_retry(e, attempt, cell, f) ==
    TylError_should_retry(e, attempt, cell, f)
RetryableError_retry_delay(e, attempt) ==
    ErrorCategory_retry_delay(TylError_category(e), attempt)
RetryableError_max_retries(cell, f) == TylError_max_retries(cell, f)

(***************************************************************************)
(* The caller: inputs                                                      *)
(***************************************************************************)
Messages == { "timeout", "" }
Fields == { "email", "id" }

EnvBacktraceValues == { Unset, Val(<<"T", "r", "u", "e">>) }
EnvRustBacktraceValues == { Unset }
EnvMaxRetriesValues == { Unset, Val(<<"0">>), Val(<<"2">>), Val(<<"+", "5">>), Val(<<"-", "1">>) }
EnvLogErrorsValues == { Unset }
EnvLogLevelValues == { Unset }

Environments ==
    [ TYL_ERROR_BACKTRACE : EnvBacktraceValues,
      RUST_BACKTRACE : EnvRustBacktraceValues,
      TYL_ERROR_MAX_RETRIES : EnvMaxRetriesValues,
      TYL_ERROR_LOG_ERRORS : EnvLogErrorsValues,
      TYL_ERROR_LOG_LEVEL : EnvLogLevelValues ]

\* the values a process sets the variables to while it runs
EnvNames ==
    { "TYL_ERROR_BACKTRACE", "RUST_BACKTRACE", "TYL_ERROR_MAX_RETRIES",
      "TYL_ERROR_LOG_ERRORS", "TYL_ERROR_LOG_LEVEL" }

SetVarValues(name) ==
    CASE name = "TYL_ERROR_BACKTRACE" ->
            { Unset, Val(<<"T", "r", "u", "e">>), Val(<<"1">>), NotUnicode }
      [] name = "RUST_BACKTRACE" -> { Unset, Val(<<"0">>), NotUnicode }
      [] name = "TYL_ERROR_MAX_RETRIES" ->
            { Unset, Val(<<"0">>),
              \* 2^64
              Val(<<"1", "8", "4", "4", "6", "7", "4", "4", "0", "7", "3", "7", "0", "9",
                    "5", "5", "1", "6", "1", "6">>) }
      [] name = "TYL_ERROR_LOG_ERRORS" -> { Unset, Val(<<"F", "A", "L", "S", "E">>) }
      [] name = "TYL_ERROR_LOG_LEVEL" ->
            { Unset, Val(<<"e", "r", "r", "o", "r">>), Val(<<"W", "a", "r", "n">>),
              Val(<<"w", "a", "r", "n", "i", "n", "g">>), Val(<<"I", "N", "F", "O">>),
              Val(<<"D", "e", "b", "u", "g">>), Val(<<"t", "r", "a", "c", "e">>),
              Val(<<"w", "a", "r", "n", "U+0131", "n", "g">>), NotUnicode }

NoCall ==
    [ op |-> "none", attempt |-> USIZE(0), flag |-> FALSE, delay |-> 0,
      cat |-> NoCategory, name |-> "", hash |-> -1, key |-> "", value |-> "",
      level |-> -1, overflow |-> FALSE ]

(***************************************************************************)
(* retry.rs: RetryPolicy                                                   *)
(* backoff_multiplier is the f64 num/den with den a power of two.          *)
(***************************************************************************)
F64(num, den) == [num |-> num, den |-> den]

RetryPolicy_default ==
    [ max_attempts |-> USIZE(3), base_delay |-> 100, max_delay |-> 30 * 1000,
      backoff_multiplier |-> F64(2, 1), jitter |-> TRUE ]

RetryPolicy_new == RetryPolicy_default

RetryPolicy_fast ==
    [ max_attempts |-> USIZE(3), base_delay |-> 50, max_delay |-> 1 * 1000,
      backoff_multiplier |-> F64(3, 2), jitter |-> TRUE ]

RetryPolicy_standard == RetryPolicy_default

RetryPolicy_slow_ThreeAttempts ==
    [ max_attempts |-> USIZE(3), base_delay |-> 500, max_delay |-> 60 * 1000,
      backoff_multiplier |-> F64(2, 1), jitter |-> TRUE ]

RetryPolicy_slow ==
    [ max_attempts |-> USIZE(5), base_delay |-> 500, max_delay |-> 60 * 1000,
      backoff_multiplier |-> F64(2, 1), jitter |-> TRUE ]

RetryPolicy_network ==
    [ max_attempts |-> USIZE(4), base_delay |-> 250, max_delay |-> 30 * 1000,
      backoff_multiplier |-> F64(2, 1), jitter |-> TRUE ]

RetryPolicy_database ==
    [ max_attempts |-> USIZE(3), base_delay |-> 100, max_delay |-> 10 * 1000,
      backoff_multiplier |-> F64(2, 1), jitter |-> TRUE ]

\* the policies the constructors build
Presets ==
    { RetryPolicy_default, RetryPolicy_new, RetryPolicy_fast, RetryPolicy_standard,
      RetryPolicy_slow, RetryPolicy_network, RetryPolicy_database }

RetryPolicy_with_max_attempts(p, max_attempts) == [p EXCEPT !.max_attempts = max_attempts]
RetryPolicy_with_base_delay(p, base_delay) == [p EXCEPT !.base_delay = base_delay]
RetryPolicy_with_max_delay(p, max_delay) == [p EXCEPT !.max_delay = max_delay]
RetryPolicy_with_backoff_multiplier(p, multiplier) == [p EXCEPT !.backoff_multiplier = multiplier]
RetryPolicy_with_jitter(p, jitter) == [p EXCEPT !.jitter = jitter]

(***************************************************************************)
(* f64, as far as calculate_delay uses it.  A natural number of any size   *)
(* is the sequence of its digits in base 2^14, the lowest first and the    *)
(* highest not 0.  An f64 is a record: finite ones hold the value          *)
(* man * 2^exp, man below 2^53 and odd or zero, exp >= -1074.              *)
(***************************************************************************)
BigBase == 2^14

RECURSIVE BigOf(_)
BigOf(n) == IF n = 0 THEN <<>> ELSE <<n % BigBase>> \o BigOf(n \div BigBase)

\* the number a sequence below 2^31 holds
BigToInt(a) ==
    (IF Len(a) >= 1 THEN a[1] ELSE 0) + (IF Len(a) >= 2 THEN a[2] * BigBase ELSE 0)
        + (IF Len(a) >= 3 THEN a[3] * BigBase * BigBase ELSE 0)

RECURSIVE BigTrim(_)
BigTrim(a) ==
    IF a # <<>> /\ a[Len(a)] = 0 THEN BigTrim(SubSeq(a, 1, Len(a) - 1)) ELSE a

RECURSIVE BigAddC(_, _, _)
BigAddC(a, b, c) ==
    IF a = <<>> /\ b = <<>> THEN (IF c = 0 THEN <<>> ELSE <<c>>)
    ELSE LET x == (IF a = <<>> THEN 0 ELSE a[1]) + (IF b = <<>> THEN 0 ELSE b[1]) + c
         IN  <<x % BigBase>> \o BigAddC(IF a = <<>> THEN <<>> ELSE Tail(a),
                                        IF b = <<>> THEN <<>> ELSE Tail(b), x \div BigBase)

BigAdd(a, b) == BigAddC(a, b, 0)

\* a - b for a >= b
RECURSIVE BigSubB(_, _, _)
BigSubB(a, b, borrow) ==
    IF a = <<>> THEN <<>>
    ELSE LET x == a[1] - (IF b = <<>> THEN 0 ELSE b[1]) - borrow
         IN  <<x % BigBase>> \o BigSubB(Tail(a), IF b = <<>> THEN <<>> ELSE Tail(b),
                                        IF x < 0 THEN 1 ELSE 0)

BigSub(a, b) == BigTrim(BigSubB(a, b, 0))

\* a < b
RECURSIVE BigLess(_, _)
BigLess(a, b) ==
    IF Len(a) # Len(b) THEN Len(a) < Len(b)
    ELSE IF a = <<>> THEN FALSE
    ELSE IF a[Len(a)] # b[Len(b)] THEN a[Len(a)] < b[Len(b)]
    ELSE BigLess(SubSeq(a, 1, Len(a) - 1), SubSeq(b, 1, Len(b) - 1))

\* a * k + c for small k and c (below 2^14)
RECURSIVE BigMulSmallC(_, _, _)
BigMulSmallC(a, k, c) ==
    IF a = <<>> THEN (IF c = 0 THEN <<>> ELSE <<c>>)
    ELSE LET x == a[1] * k + c
         IN  <<x % BigBase>> \o BigMulSmallC(Tail(a), k, x \div BigBase)

BigMulSmall(a, k) == IF k = 0 THEN <<>> ELSE BigMulSmallC(a, k, 0)

RECURSIVE BigMul(_, _)
BigMul(a, b) ==
    IF a = <<>> \/ b = <<>> THEN <<>>
    ELSE LET rest == BigMul(a, Tail(b))
         IN  BigAdd(BigMulSmall(a, b[1]), IF rest = <<>> THEN <<>> ELSE <<0>> \o rest)

\* a \div k for small k (0 < k < 2^14)
RECURSIVE BigDivSmallR(_, _, _)
BigDivSmallR(a, k, r) ==
    IF a = <<>> THEN <<>>
    ELSE LET t == r * BigBase + a[Len(a)]
         IN  BigDivSmallR(SubSeq(a, 1, Len(a) - 1), k, t % k) \o <<t \div k>>

BigDivSmall(a, k) == BigTrim(BigDivSmallR(a, k, 0))

RECURSIVE BitLen(_)
BitLen(n) == IF n = 0 THEN 0 ELSE 1 + BitLen(n \div 2)

\* the number of bits of a
BigBits(a) == IF a = <<>> THEN 0 ELSE 14 * (Len(a) - 1) + BitLen(a[Len(a)])

\* bit i of a (bit 0 is the lowest)
BigBit(a, i) ==
    IF i \div 14 + 1 > Len(a) THEN 0 ELSE (a[i \div 14 + 1] \div 2^(i % 14)) % 2

\* a % 2^n # 0
BigLowNonzero(a, n) ==
    \/ \E j \in 1..Len(a) : j <= n \div 14 /\ a[j] # 0
    \/ n \div 14 + 1 <= Len(a) /\ a[n \div 14 + 1] % 2^(n % 14) # 0

\* a \div 2^n
BigShr(a, n) ==
    IF n \div 14 >= Len(a) THEN <<>>
    ELSE BigDivSmall(SubSeq(a, n \div 14 + 1, Len(a)), 2^(n % 14))

\* a * 2^n
BigShl(a, n) ==
    IF a = <<>> THEN <<>>
    ELSE [j \in 1..(n \div 14) |-> 0] \o BigMulSmall(a, 2^(n % 14))

\* the number of zero bits at the low end of a # 0
RECURSIVE LowZeros(_)
LowZeros(n) == IF n % 2 = 1 THEN 0 ELSE 1 + LowZeros(n \div 2)
RECURSIVE BigLowZeros(_)
BigLowZeros(a) == IF a[1] = 0 THEN 14 + BigLowZeros(Tail(a)) ELSE LowZeros(a[1])

F64_NaN == [cls |-> "nan", neg |-> FALSE, man |-> <<>>, exp |-> 0]
F64_Inf(neg) == [cls |-> "inf", neg |-> neg, man |-> <<>>, exp |-> 0]
F64_Zero(neg) == [cls |-> "finite", neg |-> neg, man |-> <<>>, exp |-> 0]

\* the finite f64 of man * 2^exp, with man below 2^53 and its lowest bit at
\* 2^-1074 or above: the same value with man odd
F64_Finite(neg, man, exp) ==
    IF man = <<>> THEN F64_Zero(neg)
    ELSE [cls |-> "finite", neg |-> neg, man |-> BigShr(man, BigLowZeros(man)),
          exp |-> exp + BigLowZeros(man)]

\* man * 2^exp, plus something positive below 2^exp when sticky, rounded to the
\* nearest f64, ties to even: to 53 bits, or to the multiple of 2^-1074 for a
\* subnormal; values from 2^1024 on are +-inf
F64_Round(neg, man, exp, sticky) ==
    LET bits == BigBits(man)
        byWidth == IF bits > 53 THEN bits - 53 ELSE 0
        byRange == IF exp < -1074 THEN -1074 - exp ELSE 0
        shift == IF byWidth > byRange THEN byWidth ELSE byRange
        kept == BigShr(man, shift)
        half == shift > 0 /\ BigBit(man, shift - 1) = 1
        below == sticky \/ (shift > 1 /\ BigLowNonzero(man, shift - 1))
        up == half /\ (below \/ BigBit(kept, 0) = 1)
        rounded == IF up THEN BigAdd(kept, <<1>>) ELSE kept
    IN  IF exp + shift + BigBits(rounded) > 1024 THEN F64_Inf(neg)
        ELSE F64_Finite(neg, rounded, exp + shift)

\* u64 as f64, for a number below 2^31
F64_from_int(n) == F64_Finite(FALSE, BigOf(n), 0)

\* x * y
F64_mul(x, y) ==
    IF x.cls = "nan" \/ y.cls = "nan" THEN F64_NaN
    ELSE IF x.cls = "inf" \/ y.cls = "inf"
    THEN IF (x.cls = "finite" /\ x.man = <<>>) \/ (y.cls = "finite" /\ y.man = <<>>)
         THEN F64_NaN ELSE F64_Inf(x.neg # y.neg)
    ELSE F64_Round(x.neg # y.neg, BigMul(x.man, y.man), x.exp + y.exp, FALSE)

\* the first `steps` binary digits of 1 / den after its leading one, as
\* [q, rem]: long division, one digit a step
RECURSIVE RecipDigits(_, _, _, _)
RecipDigits(q, rem, den, steps) ==
    IF steps = 0 THEN [q |-> q, rem |-> rem]
    ELSE LET r2 == BigMulSmall(rem, 2)
             q2 == BigMulSmall(q, 2)
         IN  IF Len(q2) >= 0 /\ BigLess(r2, den) THEN RecipDigits(q2, r2, den, steps - 1)
             ELSE RecipDigits(BigAdd(q2, <<1>>), BigSub(r2, den), den, steps - 1)

\* the same digits, sixteen at a time
RECURSIVE RecipChunks(_, _, _, _)
RecipChunks(q, rem, den, steps) ==
    IF steps <= 16 THEN RecipDigits(q, rem, den, steps)
    ELSE LET d == RecipDigits(q, rem, den, 16)
         IN  RecipChunks(d.q, d.rem, den, steps - 16)

\* 1.0 / x
F64_recip(x) ==
    IF x.cls = "nan" THEN F64_NaN
    ELSE IF x.cls = "inf" THEN F64_Zero(x.neg)
    ELSE IF x.man = <<>> THEN F64_Inf(x.neg)
    ELSE LET steps == BigBits(x.man) + 55
             d == RecipChunks(<<>>, <<1>>, x.man, steps)
         IN  F64_Round(x.neg, d.q, -steps - x.exp, d.rem # <<>>)

\* __powidf2, the routine behind f64::powi: square and multiply over the bits
\* of |b|, and the reciprocal of the product for b < 0.  A NaN stays one through
\* every further product.
RECURSIVE PowiLoop(_, _, _)
PowiLoop(mul, a, pow) ==
    LET mul1 == IF pow % 2 = 1 THEN F64_mul(mul, a) ELSE mul
        pow1 == IF pow < 0 THEN (pow + (pow % 2)) \div 2 ELSE pow \div 2
        a1 == F64_mul(a, a)
    IN  IF pow1 = 0 \/ mul1.cls = "nan" THEN mul1
        ELSE IF a1.cls = "nan" THEN F64_NaN
        ELSE PowiLoop(mul1, a1, pow1)

F64_powi(a, b) ==
    IF b < 0 THEN F64_recip(PowiLoop(F64_from_int(1), a, b))
    ELSE PowiLoop(F64_from_int(1), a, b)

\* the 16-bit limbs of a number below 2^64, most significant first
BigToU64(a) ==
    [j \in 1..4 |-> LET s == BigShr(a, 16 * (4 - j))
                    IN  (IF Len(s) >= 1 THEN s[1] ELSE 0)
                           + (IF Len(s) >= 2 THEN (s[2] % 4) * BigBase ELSE 0)]

\* `x as u64`: truncated toward zero; NaN gives 0, a negative value 0, and a
\* value from 2^64 on saturates at u64::MAX (inf).  The whole milliseconds are a
\* number while below 2^31, and the four limbs of the u64 (big) from there on.
F64_as_u64(x) ==
    IF x.cls = "nan" \/ x.neg THEN [inf |-> FALSE, big |-> FALSE, ms |-> 0]
    ELSE IF x.cls = "inf" \/ (x.man # <<>> /\ x.exp + BigBits(x.man) > 64)
    THEN [inf |-> TRUE, big |-> FALSE, ms |-> 0]
    ELSE LET whole == IF x.exp >= 0 THEN BigShl(x.man, x.exp) ELSE BigShr(x.man, -x.exp)
         IN  IF BigBits(whole) <= 31 THEN [inf |-> FALSE, big |-> FALSE, ms |-> BigToInt(whole)]
             ELSE [inf |-> FALSE, big |-> TRUE, ms |-> BigToU64(whole)]

\* backoff_multiplier: the f64 num / den, den a power of two
F64_value(m) ==
    F64_Finite(m.num < 0, BigOf(IF m.num < 0 THEN -m.num ELSE m.num), 1 - BitLen(m.den))

\* what the builder calls of the caller pass
MaxAttemptsChoices == { USIZE(0) }
BaseDelayChoices == { 50 }
MaxDelayChoices == { 1 * 1000 }
MultiplierChoices == { F64(1, 1) }

\* `base_delay.as_millis() as f64 * backoff_multiplier.powi(exponent)` turned
\* `as u64`
ExponentialDelay(base_delay, multiplier, exponent) ==
    F64_as_u64(F64_mul(F64_from_int(base_delay), F64_powi(F64_value(multiplier), exponent)))

\* the same over the policies and attempts of the caller, worked out once
ExponentialDelays ==
    [ base_delay \in { p.base_delay : p \in Presets } \cup BaseDelayChoices,
      multiplier \in { p.backoff_multiplier : p \in Presets } \cup MultiplierChoices,
      exponent \in { AsI32(USubOne(attempt)) : attempt \in Attempts \ { USIZE(0) } }
      |-> ExponentialDelay(base_delay, multiplier, exponent) ]

ExponentialDelayLookup(base_delay, multiplier, exponent) ==
    IF <<base_delay, multiplier, exponent>> \in DOMAIN ExponentialDelays
    THEN ExponentialDelays[base_delay, multiplier, exponent]
    ELSE ExponentialDelay(base_delay, multiplier, exponent)

\* hash % 50 of add_jitter
JitterHashes == 0..49

\* jitter_factor = (hash % 50) as f64 / 100.0 + 0.75 is not (h + 75) / 100 but the
\* f64 next to it: JitterFactorError[h + 1] is (h + 75) / 100 minus that f64, in
\* units of 2^-53 / 100.
JitterFactorError ==
    << 0, -8, -16, -24, -32, -40, -48, -56, 36, 28,
       20, 12, 4, -4, -12, -20, -28, -36, 56, 48,
       40, 32, 24, 16, 8, 0, -8, -16, -24, -32,
       -40, -48, -56, -64, -72, -80, 112, -96, 96, -112,
       80, 72, 64, 56, 48, 40, 32, 24, 16, 8 >>

\* the largest power of two that is <= n, for n >= 1
RECURSIVE FloorPow2(_)
FloorPow2(n) == IF n < 2 THEN 1 ELSE 2 * FloorPow2(n \div 2)

\* (delay.as_millis() as f64 * jitter_factor) as u64.  The f64 product differs
\* from delay * (h + 75) / 100 by less than 1/100, so the truncation differs only
\* when that quotient is a whole number n and the product rounds to the f64 below
\* n: when the factor's error times delay exceeds half the f64 spacing below n.
RetryPolicy_add_jitter(delay, h) ==
    LET exact == delay * (h + 75)
        n == exact \div 100
        k == JitterFactorError[h + 1]
        below == IF n = FloorPow2(n) THEN 2 * delay * k > 100 * FloorPow2(n)
                 ELSE delay * k > 100 * FloorPow2(n)
    IN  IF delay > 0 /\ exact % 100 = 0 /\ k > 0 /\ below THEN n - 1 ELSE n

\* calculate_delay up to and including the cap
CappedDelay(p, attempt) ==
    LET raw == ExponentialDelayLookup(p.base_delay, p.backoff_multiplier, AsI32(USubOne(attempt)))
    IN  IF raw.inf \/ raw.big \/ raw.ms > p.max_delay THEN p.max_delay ELSE raw.ms

RetryPolicy_calculate_delay(p, attempt, h) ==
    IF attempt = USIZE(0) THEN 0
    ELSE IF p.jitter THEN RetryPolicy_add_jitter(CappedDelay(p, attempt), h)
    ELSE CappedDelay(p, attempt)

RetryPolicy_should_retry_Inclusive(p, attempt) == ~ULt(p.max_attempts, attempt)

RetryPolicy_should_retry(p, attempt) == ULt(attempt, p.max_attempts)

\* no policy built yet
NoPolicy == [absent |-> TRUE]

(***************************************************************************)
(* A caller's retry loop:                                                  *)
(*     let mut attempt = 0;                                                *)
(*     while x.should_retry(attempt) { retry(); attempt += 1; }            *)
(* with x a TylError or a RetryPolicy.                                     *)
(***************************************************************************)
\* no loop entered yet
NoLoop ==
    [ pc |-> "idle", by |-> "none", subject |-> NoError, attempt |-> USIZE(0), retries |-> 0 ]

(***************************************************************************)
(* serde: TylError as JSON                                                 *)
(***************************************************************************)
\* nothing serialized yet
NoWire == [absent |-> TRUE]

\* the variants of TylError, and the fields serde writes for each: every field
\* of the variant but the #[serde(skip)] classifier of Custom
TylErrorVariants ==
    { "Database", "Network", "Validation", "NotFound", "Conflict", "Internal",
      "Configuration", "NotImplemented", "Custom" }

SerializedFields_IdSkipped(variant) ==
    CASE variant \in { "Database", "Network", "Conflict", "Internal", "Configuration",
                       "Custom" } -> { "message" }
      [] variant = "Validation" -> { "field", "message" }
      [] variant = "NotFound" -> { "resource" }
      [] variant = "NotImplemented" -> { "feature" }

SerializedFields(variant) ==
    CASE variant \in { "Database", "Network", "Conflict", "Internal", "Configuration",
                       "Custom" } -> { "message" }
      [] variant = "Validation" -> { "field", "message" }
      [] variant = "NotFound" -> { "resource", "id" }
      [] variant = "NotImplemented" -> { "feature" }

\* #[derive(Serialize)]: the externally tagged JSON object
\* { "<Variant>": { "<field>": "<value>", ... } }
TylError_serialize(e) ==
    [ tag |-> e.variant,
      fields |-> [ k \in SerializedFields(e.variant) |-> e[k] ] ]

\* what serde_json::from_str returns for input that is no TylError
DeserializeError == [variant |-> "Err"]

\* #[derive(Deserialize)]: the variant named by the tag, every declared field
\* read from the object, the skipped classifier taken from default_classifier()
TylError_deserialize(w) ==
    IF w.tag \in TylErrorVariants
    THEN LET declared == IF w.tag = "Custom" THEN { "message" }
                         ELSE CASE w.tag \in { "Database", "Network", "Conflict",
                                               "Internal", "Configuration" } -> { "message" }
                                [] w.tag = "Validation" -> { "field", "message" }
                                [] w.tag = "NotFound" -> { "resource", "id" }
                                [] w.tag = "NotImplemented" -> { "feature" }
         IN  IF declared \subseteq DOMAIN w.fields
             THEN [ k \in { "variant" } \cup declared
                             \cup (IF w.tag = "Custom" THEN { "classifier" } ELSE {}) |->
                      CASE k = "variant" -> w.tag
                        [] k = "classifier" -> default_classifier
                        [] OTHER -> w.fields[k] ]
             ELSE DeserializeError
    ELSE DeserializeError

\* #[error("...")]: the Display string, as the pieces it is formatted from
TylError_to_string(e) ==
    CASE e.variant = "Database" -> << "Database error: ", e.message >>
      [] e.variant = "Network" -> << "Network error: ", e.message >>
      [] e.variant = "Validation" -> << "Validation error: ", e.field, ": ", e.message >>
      [] e.variant = "NotFound" -> << "Not found: ", e.resource, " with id ", e.id >>
      [] e.variant = "Conflict" -> << "Conflict: ", e.message >>
      [] e.variant = "Internal" -> << "Internal error: ", e.message >>
      [] e.variant = "Configuration" -> << "Configuration error: ", e.message >>
      [] e.variant = "NotImplemented" -> << "Feature not implemented: ", e.feature >>
      [] e.variant = "Custom" -> << "Custom error: ", e.message >>

\* TylError::log_if_enabled(&self, level): the settings cell after the call
TylError_log_if_enabled_cell(cell, f) ==
    TylError_log_level(TylError_log_errors_enabled(cell, f), f)

TylError_log_if_enabled_Strict(e, level, cell, f) ==
    IF /\ TylError_log_errors_enabled(cell, f).log_errors
       /\ level < TylError_log_if_enabled_cell(cell, f).log_level
    THEN << Eprintln(LogLevel_name(level), TylError_to_string(e)) >>
    ELSE << >>

\* TylError::log_if_enabled(&self, level): the lines it writes to stderr
TylError_log_if_enabled(e, level, cell, f) ==
    IF /\ TylError_log_errors_enabled(cell, f).log_errors
       /\ level <= TylError_log_if_enabled_cell(cell, f).log_level
    THEN << Eprintln(LogLevel_name(level), TylError_to_string(e)) >>
    ELSE << >>

(***************************************************************************)
(* context.rs: ErrorContext                                                *)
(***************************************************************************)
\* no context created yet
NoContext == [absent |-> TRUE]

\* A Uuid is held as its sixteen bytes, written as 32 lower-case hex digits.
\* Uuid::nil(), and the values Uuid::new_v4() can return: random, with the
\* version and variant bits set, hence never nil
NilUuid == [i \in 1..32 |-> "0"]
Uuids ==
    { << "6", "f", "1", "c", "2", "a", "9", "e", "0", "b", "5", "d", "4",
         "c", "3", "a", "9", "e", "7", "f", "1", "a", "2", "b", "3", "c",
         "4", "d", "5", "e", "6", "f" >>,
      << "a", "3", "b", "8", "d", "1", "b", "6", "0", "b", "3", "b", "4",
         "b", "1", "a", "9", "c", "1", "a", "1", "a", "2", "b", "3", "c",
         "4", "d", "5", "e", "6", "f" >> }

\* the values Utc::now() can return: a date and a time of day in UTC, to the
\* nanosecond
Instants ==
    { [ year |-> 2024, month |-> 1, day |-> 1, hour |-> 0, minute |-> 30, second |-> 0,
        nano |-> 123456000 ] }

\* HashMap::new()
EmptyMap == [k \in {} |-> ""]

\* HashMap::insert: insert or overwrite
HashMap_insert_KeepFirst(m, key, value) ==
    [k \in DOMAIN m \cup {key} |-> IF k \in DOMAIN m THEN m[k] ELSE value]

HashMap_insert(m, key, value) ==
    [k \in DOMAIN m \cup {key} |-> IF k = key THEN value ELSE m[k]]

ErrorContext_new_ZeroAttempts(operation, category, message, id, now) ==
    [ error_id |-> id, operation |-> operation, category |-> category,
      message |-> message, occurred_at |-> now, attempt_count |-> USIZE(0),
      metadata |-> EmptyMap ]

\* ErrorContext::new; id is what Uuid::new_v4() returned, now what Utc::now() did
ErrorContext_new(operation, category, message, id, now) ==
    [ error_id |-> id, operation |-> operation, category |-> category,
      message |-> message, occurred_at |-> now, attempt_count |-> USIZE(1),
      metadata |-> EmptyMap ]

ErrorContext_with_metadata(c, key, value) ==
    [c EXCEPT !.metadata = HashMap_insert(c.metadata, key, value)]

\* self.attempt_count += 1, which overflows at usize::MAX
ErrorContext_increment_attempt(c) ==
    [c EXCEPT !.attempt_count =
        IF @ = USIZE_MAX THEN Overflowed(USIZE(0)) ELSE UAddOne(@)]

ErrorContext_add_metadata(c, key, value) ==
    [c EXCEPT !.metadata = HashMap_insert(c.metadata, key, value)]

\* Option<&Value>
ErrorContext_get_metadata(c, key) ==
    IF key \in DOMAIN c.metadata THEN [some |-> TRUE, value |-> c.metadata[key]]
    ELSE [some |-> FALSE, value |-> ""]

ErrorContext_has_metadata(c, key) == key \in DOMAIN c.metadata

ErrorContext_clear_metadata_ResetsAttempts(c) ==
    [c EXCEPT !.metadata = EmptyMap, !.attempt_count = USIZE(1)]

ErrorContext_clear_metadata(c) == [c EXCEPT !.metadata = EmptyMap]

ErrorContext_metadata_count(c) == Cardinality(DOMAIN c.metadata)

\* A JSON value of a document: a string with its characters, a number with the
\* characters it is written in, an object with its members, null.
JsonString(text) == [json |-> "string", text |-> text]
JsonNumber(text) == [json |-> "number", text |-> text]
JsonObject(members) == [json |-> "object", members |-> members]
JsonNull == [json |-> "null"]

IsDigits(s) == \A i \in DOMAIN s : IndexIn(Digits, s[i]) > 0
HexDigits == Digits \o << "a", "b", "c", "d", "e", "f" >>
IsHexDigit(c) == IndexIn(HexDigits, c) > 0 \/ IndexIn(SubSeq(UpperCase, 1, 6), c) > 0

\* a sequence without the elements at the positions in skip
RECURSIVE Without(_, _)
Without(s, skip) ==
    IF s = <<>> THEN <<>>
    ELSE Without(SubSeq(s, 1, Len(s) - 1), skip)
            \o (IF Len(s) \in skip THEN <<>> ELSE << s[Len(s)] >>)

\* uuid: the hyphenated lower-case form Serialize writes for a Uuid
Uuid_to_string(u) ==
    SubSeq(u, 1, 8) \o << "-" >> \o SubSeq(u, 9, 12) \o << "-" >> \o SubSeq(u, 13, 16)
       \o << "-" >> \o SubSeq(u, 17, 20) \o << "-" >> \o SubSeq(u, 21, 32)

UuidHyphens == { 9, 14, 19, 24 }

\* uuid: Uuid::parse_str, which Deserialize uses on a string: 32 hex digits of
\* either case, plain, or hyphenated 8-4-4-4-12, the hyphenated form also in
\* braces or after "urn:uuid:"
Uuid_parse_str(s) ==
    LET inner == IF Len(s) = 45 /\ SubSeq(s, 1, 9) = << "u", "r", "n", ":", "u", "u", "i", "d", ":" >>
                 THEN SubSeq(s, 10, 45)
                 ELSE IF Len(s) = 38 /\ s[1] = "{" /\ s[38] = "}" THEN SubSeq(s, 2, 37)
                 ELSE s
        framed == Len(s) \in { 38, 45 }
        hex == IF Len(inner) = 36 /\ \A i \in UuidHyphens : inner[i] = "-"
               THEN Without(inner, UuidHyphens)
               ELSE inner
    IN  IF /\ Len(hex) = 32
           /\ framed => Len(inner) = 36
           /\ \A i \in DOMAIN hex : IsHexDigit(hex[i])
        THEN [ok |-> TRUE, value |-> [i \in 1..32 |-> char_to_lowercase(hex[i])[1]]]
        ELSE [ok |-> FALSE, value |-> NilUuid]

\* the decimal digits of a number below 2^31, in at least width characters
RECURSIVE DecimalDigits(_, _)
DecimalDigits(n, width) ==
    IF n < 10 /\ width <= 1 THEN << Digits[n + 1] >>
    ELSE DecimalDigits(n \div 10, width - 1) \o << Digits[(n % 10) + 1] >>

\* the number a sequence of at most nine decimal digits writes
RECURSIVE DigitsValue(_)
DigitsValue(s) ==
    IF s = <<>> THEN 0
    ELSE DigitsValue(SubSeq(s, 1, Len(s) - 1)) * 10 + (IndexIn(Digits, s[Len(s)]) - 1)

\* the decimal digits of a usize, as Serialize writes it
RECURSIVE usize_to_string(_)
usize_to_string(n) ==
    IF UDivSmall(n, 10).quot = USIZE(0) THEN << Digits[UDivSmall(n, 10).rem + 1] >>
    ELSE usize_to_string(UDivSmall(n, 10).quot) \o << Digits[UDivSmall(n, 10).rem + 1] >>

\* serde_json reading a usize from a JSON number: an integer written without
\* sign, fraction or exponent (and, as JSON has it, without a leading zero) that
\* is at most usize::MAX
usize_from_json(text) ==
    IF /\ text # <<>>
       /\ IsDigits(text)
       /\ Len(text) > 1 => text[1] # "0"
    THEN DecimalValue(USIZE(0), text)
    ELSE [ok |-> FALSE, value |-> USIZE(0)]

\* chrono: the calendar
IsLeapYear(y) == (y % 4 = 0 /\ y % 100 # 0) \/ y % 400 = 0
DaysInMonth(y, m) ==
    IF m = 2 THEN (IF IsLeapYear(y) THEN 29 ELSE 28)
    ELSE IF m \in { 4, 6, 9, 11 } THEN 30 ELSE 31

\* the day before and the day after a date
PreviousDay(t) ==
    IF t.day > 1 THEN [t EXCEPT !.day = @ - 1]
    ELSE IF t.month > 1
    THEN [t EXCEPT !.month = @ - 1, !.day = DaysInMonth(t.year, t.month - 1)]
    ELSE [t EXCEPT !.year = @ - 1, !.month = 12, !.day = 31]
NextDay(t) ==
    IF t.day < DaysInMonth(t.year, t.month) THEN [t EXCEPT !.day = @ + 1]
    ELSE IF t.month < 12 THEN [t EXCEPT !.month = @ + 1, !.day = 1]
    ELSE [t EXCEPT !.year = @ + 1, !.month = 1, !.day = 1]

\* chrono: dt.with_timezone(&Utc) on a local date and time whose offset from
\* UTC is offset minutes, less than a day either way
DateTime_with_timezone_Utc(t, offset) ==
    LET minutes == t.hour * 60 + t.minute - offset
        day == IF minutes < 0 THEN PreviousDay(t)
               ELSE IF minutes >= 1440 THEN NextDay(t) ELSE t
    IN  [day EXCEPT !.hour = (minutes % 1440) \div 60, !.minute = minutes % 60]

\* chrono: the fraction of a second Serialize writes: none, or 3, 6 or 9 digits
DateTime_fraction(nano) ==
    IF nano = 0 THEN <<>>
    ELSE IF nano % 1000000 = 0 THEN << "." >> \o DecimalDigits(nano \div 1000000, 3)
    ELSE IF nano % 1000 = 0 THEN << "." >> \o DecimalDigits(nano \div 1000, 6)
    ELSE << "." >> \o DecimalDigits(nano, 9)

\* chrono: the years a NaiveDate holds: (i32::MIN >> 13) + 1 ..= (i32::MAX >> 13) - 1
NaiveDate_MIN_YEAR == 1 - 2^18
NaiveDate_MAX_YEAR == 2^18 - 2

\* chrono: the year of the RFC 3339 form: four digits within 0..=9999, otherwise
\* "{:+05}": the sign and at least four digits
DateTime_year(year) ==
    IF year \in 0..9999 THEN DecimalDigits(year, 4)
    ELSE IF year < 0 THEN << "-" >> \o DecimalDigits(-year, 4)
    ELSE << "+" >> \o DecimalDigits(year, 4)

\* chrono: Serialize for DateTime<Utc>: the RFC 3339 form with Z for the zone
DateTime_to_string(t) ==
    DateTime_year(t.year) \o << "-" >> \o DecimalDigits(t.month, 2) \o << "-" >>
       \o DecimalDigits(t.day, 2) \o << "T" >> \o DecimalDigits(t.hour, 2) \o << ":" >>
       \o DecimalDigits(t.minute, 2) \o << ":" >> \o DecimalDigits(t.second, 2)
       \o DateTime_fraction(t.nano) \o << "Z" >>

NoInstant ==
    [year |-> 0, month |-> 0, day |-> 0, hour |-> 0, minute |-> 0, second |-> 0, nano |-> 0]

\* char::is_whitespace: the characters with the Unicode White_Space property
WhiteSpace ==
    { " ", "U+0009", "U+000A", "U+000B", "U+000C", "U+000D", "U+0085", "U+00A0", "U+1680",
      "U+2000", "U+2001", "U+2002", "U+2003", "U+2004", "U+2005", "U+2006", "U+2007",
      "U+2008", "U+2009", "U+200A", "U+2028", "U+2029", "U+202F", "U+205F", "U+3000" }

\* str::trim_start on s from position i: the position of the first character
\* that is not white space, Len(s) + 1 when there is none
RECURSIVE trim_start(_, _)
trim_start(s, i) == IF i <= Len(s) /\ s[i] \in WhiteSpace THEN trim_start(s, i + 1) ELSE i

\* how many of the characters of s from position i on are digits
RECURSIVE DigitRun(_, _)
DigitRun(s, i) ==
    IF i <= Len(s) /\ IndexIn(Digits, s[i]) > 0 THEN 1 + DigitRun(s, i + 1) ELSE 0

\* chrono scan::number(s, 1, max): the digits at position i, at most max of
\* them and at least one, as the i64 they write, held in limbs; digits that do
\* not fit an i64 are OUT_OF_RANGE
scan_number(s, i, max) ==
    LET n == IF DigitRun(s, i) < max THEN DigitRun(s, i) ELSE max
        v == DecimalValue(USIZE(0), SubSeq(s, i, i + n - 1))
    IN  IF n >= 1 /\ v.ok /\ v.value[1] < Limb \div 2
        THEN [ok |-> TRUE, next |-> i + n, value |-> v.value]
        ELSE [ok |-> FALSE, next |-> i, value |-> USIZE(0)]

\* chrono parse_internal: where the parser stands in the text and the fields
\* Parsed holds, in the order they were set; a parse that has failed
ParseStart == [ok |-> TRUE, at |-> 1, got |-> <<>>]
ParseFailed == [ok |-> FALSE, at |-> 1, got |-> <<>>]

\* chrono parse_internal, Item::Space(""): white space is skipped
Item_Space(s, st) == IF st.ok THEN [st EXCEPT !.at = trim_start(s, st.at)] ELSE ParseFailed

\* chrono parse_internal, Item::Literal: the character has to come next
Item_Literal(s, st, c) ==
    IF st.ok /\ st.at <= Len(s) /\ s[st.at] = c THEN [st EXCEPT !.at = @ + 1] ELSE ParseFailed

\* chrono Parsed::set_month, set_day, set_hour, set_minute, set_second: the
\* values each takes, any other is OUT_OF_RANGE
Parsed_range(spec) ==
    CASE spec = "Month" -> 1..12
      [] spec = "Day" -> 1..31
      [] spec = "Hour" -> 0..23
      [] spec = "Minute" -> 0..59
      [] spec = "Second" -> 0..60

\* chrono parse_internal, Item::Numeric of an unsigned field (Month, Day, Hour,
\* Minute, Second): white space is skipped, one or two digits are read and
\* Parsed::set_* takes the value
Item_Numeric(s, st, spec) ==
    LET n == scan_number(s, trim_start(s, st.at), 2)
    IN  IF st.ok /\ n.ok /\ n.value[4] \in Parsed_range(spec)
        THEN [ok |-> TRUE, at |-> n.next, got |-> Append(st.got, n.value[4])]
        ELSE ParseFailed

\* i32::try_from on the i64 that is v, or 0 - v when negative
I32_try_from(v, negative) ==
    IF v[1] = 0 /\ v[2] = 0 /\ v[3] < Limb \div 2
    THEN [ok |-> TRUE,
          value |-> IF negative THEN -(v[3] * Limb + v[4]) ELSE v[3] * Limb + v[4]]
    ELSE IF negative /\ v = <<0, 0, Limb \div 2, 0>>
    THEN [ok |-> TRUE, value |-> -((Limb \div 2 - 1) * Limb + (Limb - 1)) - 1]
    ELSE [ok |-> FALSE, value |-> 0]

\* chrono parse_internal, Item::Numeric(Year): white space is skipped; after a
\* sign any number of digits is read, without one at most four;
\* Parsed::set_year takes every year that is an i32
Item_Year(s, st) ==
    LET at == trim_start(s, st.at)
        signed == at <= Len(s) /\ s[at] \in { "+", "-" }
        n == IF signed THEN scan_number(s, at + 1, Len(s)) ELSE scan_number(s, at, 4)
        year == I32_try_from(n.value, signed /\ s[at] = "-")
    IN  IF st.ok /\ n.ok /\ year.ok
        THEN [ok |-> TRUE, at |-> n.next, got |-> Append(st.got, year.value)]
        ELSE ParseFailed

\* chrono parse_internal, Fixed::Nanosecond with scan::nanosecond: after a "."
\* one digit or more; nine are read to the nanosecond and the rest skipped
Item_Nanosecond(s, st) ==
    LET n == DigitRun(s, st.at + 1)
    IN  IF ~st.ok THEN ParseFailed
        ELSE IF ~(st.at <= Len(s) /\ s[st.at] = ".") THEN [st EXCEPT !.got = Append(@, 0)]
        ELSE IF n = 0 THEN ParseFailed
        ELSE [ok |-> TRUE, at |-> st.at + 1 + n,
              got |-> Append(st.got,
                             IF n >= 9 THEN DigitsValue(SubSeq(s, st.at + 1, st.at + 9))
                             ELSE DigitsValue(SubSeq(s, st.at + 1, st.at + n)) * 10^(9 - n))]

\* chrono scan::colon_or_space: colons and white space are skipped
RECURSIVE scan_colon_or_space(_, _)
scan_colon_or_space(s, i) ==
    IF i <= Len(s) /\ (s[i] = ":" \/ s[i] \in WhiteSpace) THEN scan_colon_or_space(s, i + 1)
    ELSE i

\* chrono scan::timezone_offset(s, colon_or_space, true, false, true) at
\* position i: Z or z, or a sign (+, - or U+2212), two digits of hours, colons
\* and white space, two digits of minutes below 60; the offset in minutes
scan_timezone_offset(s, i) ==
    LET m == scan_colon_or_space(s, i + 3)
    IN  IF i <= Len(s) /\ s[i] \in { "Z", "z" } THEN [ok |-> TRUE, next |-> i + 1, offset |-> 0]
        ELSE IF /\ i + 2 <= Len(s)
                /\ s[i] \in { "+", "-", "U+2212" }
                /\ IsDigits(<< s[i + 1], s[i + 2] >>)
                /\ m + 1 <= Len(s)
                /\ IsDigits(<< s[m], s[m + 1] >>)
                /\ DigitsValue(<< s[m] >>) <= 5
        THEN [ok |-> TRUE, next |-> m + 2,
              offset |-> (IF s[i] = "+" THEN 1 ELSE -1)
                            * (DigitsValue(<< s[i + 1], s[i + 2] >>) * 60
                                  + DigitsValue(<< s[m], s[m + 1] >>))]
        ELSE [ok |-> FALSE, next |-> i, offset |-> 0]

\* chrono parse_rfc3339_relaxed at the zone: UTC in either case, or a
\* timezone_offset
scan_zone(z, at) ==
    IF /\ at + 2 <= Len(z)
       /\ z[at] \in { "U", "u" } /\ z[at + 1] \in { "T", "t" } /\ z[at + 2] \in { "C", "c" }
    THEN [ok |-> TRUE, next |-> at + 3, offset |-> 0]
    ELSE scan_timezone_offset(z, at)

\* chrono parse_rfc3339_relaxed after the time: white space is skipped, the
\* zone is read and Parsed::set_offset takes its offset (in minutes here)
Item_Offset(s, st) ==
    LET zone == scan_zone(s, trim_start(s, st.at))
    IN  IF st.ok /\ zone.ok
        THEN [ok |-> TRUE, at |-> zone.next, got |-> Append(st.got, zone.offset)]
        ELSE ParseFailed

\* chrono parse_rfc3339_relaxed between the date and the time: one of T, t and
\* the blank
Item_Separator(s, st) ==
    IF st.ok /\ st.at <= Len(s) /\ s[st.at] \in { "T", "t", " " } THEN [st EXCEPT !.at = @ + 1]
    ELSE ParseFailed

\* chrono parse_rfc3339_relaxed, DATE_ITEMS: year - month - day
parse_rfc3339_date(s) ==
    Item_Numeric(s, Item_Literal(s, Item_Space(s,
        Item_Numeric(s, Item_Literal(s, Item_Space(s, Item_Year(s, ParseStart)), "-"),
                     "Month")),
        "-"), "Day")

\* chrono parse_rfc3339_relaxed: the date, the separator, TIME_ITEMS (hour :
\* minute : second and an optional fraction) and the zone; it gives what is
\* left of the text and the fields of Parsed: year, month, day, hour, minute,
\* second, nanosecond, offset
parse_rfc3339_relaxed(s) ==
    Item_Offset(s, Item_Nanosecond(s,
        Item_Numeric(s, Item_Literal(s, Item_Space(s,
            Item_Numeric(s, Item_Literal(s, Item_Space(s,
                Item_Numeric(s, Item_Separator(s, parse_rfc3339_date(s)), "Hour")), ":"),
                "Minute")),
            ":"), "Second")))

\* the fields chrono's Parsed holds after parse_rfc3339_relaxed
Parsed_fields(got) ==
    [ year |-> got[1], month |-> got[2], day |-> got[3], hour |-> got[4], minute |-> got[5],
      second |-> got[6], nano |-> got[7], offset |-> got[8] ]

\* the local date and time of the fields
Parsed_local(parsed) ==
    [ year |-> parsed.year, month |-> parsed.month, day |-> parsed.day, hour |-> parsed.hour,
      minute |-> parsed.minute, second |-> parsed.second, nano |-> parsed.nano ]

\* chrono Parsed::to_datetime and with_timezone(&Utc): the fields, each within
\* its range, have to name a day that exists within the years of NaiveDate,
\* FixedOffset::east_opt takes offsets of less than a day, and the instant has
\* to stay within those years when moved to UTC
Parsed_to_datetime(parsed) ==
    IF /\ parsed.year \in NaiveDate_MIN_YEAR..NaiveDate_MAX_YEAR
       /\ parsed.day <= DaysInMonth(parsed.year, parsed.month)
       /\ parsed.offset > -1440 /\ parsed.offset < 1440
       /\ DateTime_with_timezone_Utc(Parsed_local(parsed), parsed.offset).year
             \in NaiveDate_MIN_YEAR..NaiveDate_MAX_YEAR
    THEN [ok |-> TRUE,
          value |-> DateTime_with_timezone_Utc(Parsed_local(parsed), parsed.offset)]
    ELSE [ok |-> FALSE, value |-> NoInstant]

\* chrono FromStr for DateTime<FixedOffset> once parse_rfc3339_relaxed is
\* through: nothing but white space may be left of the text (TOO_LONG)
DateTime_from_parsed(s, p) ==
    IF p.ok /\ trim_start(s, p.at) > Len(s) THEN Parsed_to_datetime(Parsed_fields(p.got))
    ELSE [ok |-> FALSE, value |-> NoInstant]

\* chrono: Deserialize for DateTime<Utc> on a string, which is FromStr for
\* DateTime<FixedOffset> and with_timezone(&Utc)
DateTime_from_str(s) == DateTime_from_parsed(s, parse_rfc3339_relaxed(s))

\* #[derive(Serialize)] on ErrorContext: a JSON object with every field but the
\* #[serde(skip)] category: the Uuid as its hyphenated string, the DateTime<Utc>
\* as its RFC 3339 string, the usize as a number, the map as an object
SerializedContextFields ==
    { "error_id", "operation", "message", "occurred_at", "attempt_count", "metadata" }

ErrorContext_serialize(c) ==
    [ error_id |-> JsonString(Uuid_to_string(c.error_id)),
      operation |-> JsonString(c.operation),
      message |-> JsonString(c.message),
      occurred_at |-> JsonString(DateTime_to_string(c.occurred_at)),
      attempt_count |-> JsonNumber(usize_to_string(c.attempt_count)),
      metadata |-> JsonObject(c.metadata) ]

\* the context the derived Deserialize builds from the parsed field values,
\* when each of them parsed
ErrorContext_from_fields(w, error_id, occurred_at, attempt_count) ==
    IF error_id.ok /\ occurred_at.ok /\ attempt_count.ok
    THEN [ error_id |-> error_id.value,
           operation |-> w.operation.text,
           category |-> ErrorCategory_unknown,
           message |-> w.message.text,
           occurred_at |-> occurred_at.value,
           attempt_count |-> attempt_count.value,
           metadata |-> w.metadata.members ]
    ELSE NoContext

\* #[derive(Deserialize)] on ErrorContext: every serialized field has to be in
\* the object and to hold a value of its type, a string that is a Uuid, a string
\* that is a date and time, a number that is a usize; the skipped category is
\* taken from ErrorCategory::unknown(); any failure is an Err, NoContext here
ErrorContext_deserialize(w) ==
    IF /\ SerializedContextFields \subseteq DOMAIN w
       /\ \A k \in { "error_id", "operation", "message", "occurred_at" } :
             w[k].json = "string"
       /\ w.attempt_count.json = "number"
       /\ w.metadata.json = "object"
    THEN ErrorContext_from_fields(w, Uuid_parse_str(w.error_id.text),
                                  DateTime_from_str(w.occurred_at.text),
                                  usize_from_json(w.attempt_count.text))
    ELSE NoContext

TylError_to_context_UnknownCategory(e, operation, id, now) ==
    ErrorContext_new(operation, ErrorCategory_unknown, TylError_to_string(e), id, now)

\* TylError::to_context
TylError_to_context(e, operation, id, now) ==
    ErrorContext_new(operation, TylError_category(e), TylError_to_string(e), id, now)

\* what the caller passes
Operations == { "save_user", "" }
ContextCategories == { ErrorCategory_network, Custom(BusinessLogicError) }
ContextMessages == { << "Timeout" >> }
MetadataKeys == { "endpoint", "timeout_ms" }
\* serde_json::Value, as JSON text
MetadataValues == { "\"/api/users\"", "5000" }

\* entries of the log of calls made on the context
Inserted(key, value) == [op |-> "insert", key |-> key, value |-> value]
Cleared == [op |-> "clear", key |-> "", value |-> ""]
Incremented == [op |-> "increment", key |-> "", value |-> ""]

(***************************************************************************)
(* lib.rs: the definitions of the crate root, translated from lib.rs on    *)
(* their own.  The values (TylError, ErrorCategory, ErrorContext) have the *)
(* shape of the modules' values: the type definitions are the same.        *)
(***************************************************************************)
lib_BuiltinCategory_is_retriable(b) ==
    b \in { "Transient", "Network", "ServiceUnavailable", "ResourceExhaustion" }

lib_BuiltinCategory_retry_delay_Cap64(b, attempt) ==
    LET base_delay == CASE b = "Transient" -> 100
                        [] b = "Network" -> 500
                        [] b = "ServiceUnavailable" -> 1 * 1000
                        [] b = "ResourceExhaustion" -> 5 * 1000
                        [] OTHER -> 100
        multiplier == U32Pow2(UMin(attempt, 10))
    IN  base_delay * (IF multiplier < 64 THEN multiplier ELSE 64)

lib_BuiltinCategory_retry_delay(b, attempt) ==
    LET base_delay == CASE b = "Transient" -> 100
                        [] b = "Network" -> 500
                        [] b = "ServiceUnavailable" -> 1 * 1000
                        [] b = "ResourceExhaustion" -> 5 * 1000
                        [] OTHER -> 100
        multiplier == U32Pow2(UMin(attempt, 10))
    IN  base_delay * (IF multiplier < 60 THEN multiplier ELSE 60)

lib_BuiltinCategory_category_name(b) ==
    CASE b = "Transient" -> "Transient"
      [] b = "Permanent" -> "Permanent"
      [] b = "ResourceExhaustion" -> "ResourceExhaustion"
      [] b = "Network" -> "Network"
      [] b = "Authentication" -> "Authentication"
      [] b = "Validation" -> "Validation"
      [] b = "Internal" -> "Internal"
      [] b = "ServiceUnavailable" -> "ServiceUnavailable"
      [] b = "Unknown" -> "Unknown"

lib_TylError_category(e) ==
    CASE e.variant = "Database" -> Builtin("Transient")
      [] e.variant = "Network" -> Builtin("Network")
      [] e.variant = "Validation" -> Builtin("Validation")
      [] e.variant = "NotFound" -> Builtin("Permanent")
      [] e.variant = "Conflict" -> Builtin("Permanent")
      [] e.variant = "Internal" -> Builtin("Internal")
      [] e.variant = "Configuration" -> Builtin("Permanent")
      [] e.variant = "NotImplemented" -> Builtin("Permanent")
      [] e.variant = "Custom" -> Custom(Classifier_clone(e.classifier))

lib_ErrorContext_new(operation, category, message, id, now) ==
    [ error_id |-> id, operation |-> operation, category |-> category,
      message |-> message, occurred_at |-> now, attempt_count |-> USIZE(1),
      metadata |-> [k \in {} |-> ""] ]

lib_TylError_to_context(e, operation, id, now) ==
    lib_ErrorContext_new(operation, lib_TylError_category(e), TylError_to_string(e), id, now)

lib_TylError_parsing(message) ==
    [variant |-> "Validation", field |-> "parsing", message |-> message]
lib_TylError_serialization(message) ==
    [variant |-> "Internal", message |-> Concat("Serialization error: ", message)]
lib_TylError_connection(message) ==
    [variant |-> "Network", message |-> Concat("Connection error: ", message)]
lib_TylError_initialization(message) ==
    [variant |-> "Internal", message |-> Concat("Initialization error: ", message)]

(***************************************************************************)
(* settings.rs: ErrorSettings::global() called from several threads        *)
(***************************************************************************)
Threads == { "t1", "t2" }

\* OnceLock::new(): the Once is incomplete and no closure has run
OnceNew == [state |-> "incomplete", ran |-> 0]

\* the thread of the caller, whose calls the Call_ actions are
Caller == "caller"

\* a thread outside ErrorSettings::global() that has not called it yet
ThreadIdle == [pc |-> "idle", got |-> Uninitialized]

OnceLock_enter_NoExclusion(o) ==
    CASE o.state = "complete" -> "returned"
      [] o.state = "incomplete" -> "running"
      [] o.state = "running" -> "running"

\* SETTINGS.get_or_init(..), on entry: a complete cell is returned at once; the
\* first thread to find it incomplete marks it running and runs the closure;
\* a thread that finds it running waits
OnceLock_enter(o) ==
    CASE o.state = "complete" -> "returned"
      [] o.state = "incomplete" -> "running"
      [] o.state = "running" -> "waiting"

(***************************************************************************)
(* The state machine.  Every action is one call of the library by the      *)
(* caller; `last` records the call and its result.                         *)
(***************************************************************************)
Init ==
    /\ env \in Environments
    /\ settings = Uninitialized
    /\ err = NoError
    /\ policy = NoPolicy
    /\ tries = USIZE(0)
    /\ last = NoCall
    /\ ctx = NoContext
    /\ calls = <<>>
    /\ wire = NoWire
    /\ back = NoError
    /\ once = OnceNew
    /\ threads = [t \in Threads \cup { Caller } |-> ThreadIdle]
    /\ stderr = <<>>
    /\ ctxWire = NoWire
    /\ ctxBack = NoContext
    /\ retryLoop = NoLoop

\* the same, in a process whose environment sets none of the variables
InitUnset ==
    /\ env = [ TYL_ERROR_BACKTRACE |-> Unset, RUST_BACKTRACE |-> Unset,
               TYL_ERROR_MAX_RETRIES |-> Unset, TYL_ERROR_LOG_ERRORS |-> Unset,
               TYL_ERROR_LOG_LEVEL |-> Unset ]
    /\ settings = Uninitialized
    /\ err = NoError
    /\ policy = NoPolicy
    /\ tries = USIZE(0)
    /\ last = NoCall
    /\ ctx = NoContext
    /\ calls = <<>>
    /\ wire = NoWire
    /\ back = NoError
    /\ once = OnceNew
    /\ threads = [t \in Threads \cup { Caller } |-> ThreadIdle]
    /\ stderr = <<>>
    /\ ctxWire = NoWire
    /\ ctxBack = NoContext
    /\ retryLoop = NoLoop

\* the caller is outside ErrorSettings::global() and makes its next call
CallerOutside == threads[Caller].pc = "idle"

\* what a call of the caller does to the OnceLock.  A call that does not reach
\* ErrorSettings::global() leaves it alone.  One that does returns when the cell
\* holds a value, or when the caller's own closure has ended: its value is
\* stored in the cell and the Once completes
Caller_global(reaches) ==
    IF reaches
    THEN /\ OnceLock_enter(once) = "returned" \/ threads[Caller].pc = "loaded"
         /\ once' = IF threads[Caller].pc = "loaded"
                    THEN [state |-> "complete", ran |-> once.ran + 1] ELSE once
         /\ threads' = [threads EXCEPT ![Caller] = ThreadIdle]
    ELSE /\ CallerOutside
         /\ UNCHANGED threadVars

\* a call of the caller gets to SETTINGS.get_or_init(..) and finds the Once
\* incomplete: the caller marks it running and is about to run the closure
Caller_enter ==
    /\ CallerOutside
    /\ OnceLock_enter(once) = "running"
    /\ once' = [once EXCEPT !.state = "running"]
    /\ threads' = [threads EXCEPT ![Caller] = ClosureEntry]
    /\ UNCHANGED <<env, settings, err, policy, tries, last, contextVars, serdeVars, logVars, contextSerdeVars, loopVars>>

\* whoever runs the closure makes its next std::env::var call
Closure_read ==
    /\ \E t \in DOMAIN threads :
          /\ threads[t].pc \in ClosureReads
          /\ threads' = [threads EXCEPT ![t] = Closure_step(@, env)]
    /\ UNCHANGED <<env, settings, err, policy, tries, last, once, contextVars, serdeVars, logVars, contextSerdeVars, loopVars>>

\* the caller moves to another attempt number
SetAttempt ==
    /\ CallerOutside
    /\ \E a \in Attempts : tries' = a
    /\ last' = NoCall
    /\ UNCHANGED <<env, settings, err, policy, contextVars, serdeVars, threadVars, logVars, contextSerdeVars, loopVars>>

(* ---- category.rs ---- *)
Call_BuiltinCategory_is_retriable ==
    /\ CallerOutside
    /\ \E b \in BuiltinCategory :
          last' = [NoCall EXCEPT !.op = "BuiltinCategory::is_retriable", !.cat = Builtin(b),
                                 !.flag = BuiltinCategory_is_retriable(b)]
    /\ UNCHANGED <<env, settings, err, policy, tries, contextVars, serdeVars, threadVars, logVars, contextSerdeVars, loopVars>>

Call_BuiltinCategory_retry_delay ==
    /\ CallerOutside
    /\ \E b \in BuiltinCategory :
          last' = [NoCall EXCEPT !.op = "BuiltinCategory::retry_delay", !.cat = Builtin(b),
                                 !.attempt = tries,
                                 !.overflow = BuiltinCategory_retry_delay_overflows(b, tries),
                                 !.delay = BuiltinCategory_retry_delay(b, tries)]
    /\ UNCHANGED <<env, settings, err, policy, tries, contextVars, serdeVars, threadVars, logVars, contextSerdeVars, loopVars>>

Call_ErrorCategory_is_retriable ==
    /\ CallerOutside
    /\ \E c \in Categories :
          last' = [NoCall EXCEPT !.op = "ErrorCategory::is_retriable", !.cat = c,
                                 !.flag = ErrorCategory_is_retriable(c)]
    /\ UNCHANGED <<env, settings, err, policy, tries, contextVars, serdeVars, threadVars, logVars, contextSerdeVars, loopVars>>

Call_ErrorCategory_retry_delay ==
    /\ CallerOutside
    /\ \E c \in Categories :
          /\ last' = [NoCall EXCEPT !.op = "ErrorCategory::retry_delay", !.cat = c,
                                    !.attempt = tries,
                                    !.delay = ErrorCategory_retry_delay(c, tries)]
    /\ UNCHANGED <<env, settings, err, policy, tries, contextVars, serdeVars, threadVars, logVars, contextSerdeVars, loopVars>>

Call_ErrorCategory_category_name ==
    /\ CallerOutside
    /\ \E c \in Categories :
          last' = [NoCall EXCEPT !.op = "ErrorCategory::category_name", !.cat = c,
                                 !.name = ErrorCategory_category_name(c)]
    /\ UNCHANGED <<env, settings, err, policy, tries, contextVars, serdeVars, threadVars, logVars, contextSerdeVars, loopVars>>

(* ---- error.rs ---- *)
Made(op) == [NoCall EXCEPT !.op = op]

New_database ==
    /\ CallerOutside
    /\ \E m \in Messages : err' = TylError_database(m)
    /\ last' = Made("TylError::database")
    /\ UNCHANGED <<env, settings, policy, tries, contextVars, serdeVars, threadVars, logVars, contextSerdeVars, loopVars>>

New_network ==
    /\ CallerOutside
    /\ \E m \in Messages : err' = TylError_network(m)
    /\ last' = Made("TylError::network")
    /\ UNCHANGED <<env, settings, policy, tries, contextVars, serdeVars, threadVars, logVars, contextSerdeVars, loopVars>>

New_validation ==
    /\ CallerOutside
    /\ \E f \in Fields, m \in Messages : err' = TylError_validation(f, m)
    /\ last' = Made("TylError::validation")
    /\ UNCHANGED <<env, settings, policy, tries, contextVars, serdeVars, threadVars, logVars, contextSerdeVars, loopVars>>

New_not_found ==
    /\ CallerOutside
    /\ \E r \in Fields, i \in Messages : err' = TylError_not_found(r, i)
    /\ last' = Made("TylError::not_found")
    /\ UNCHANGED <<env, settings, policy, tries, contextVars, serdeVars, threadVars, logVars, contextSerdeVars, loopVars>>

New_conflict ==
    /\ CallerOutside
    /\ \E m \in Messages : err' = TylError_conflict(m)
    /\ last' = Made("TylError::conflict")
    /\ UNCHANGED <<env, settings, policy, tries, contextVars, serdeVars, threadVars, logVars, contextSerdeVars, loopVars>>

New_internal ==
    /\ CallerOutside
    /\ \E m \in Messages : err' = TylError_internal(m)
    /\ last' = Made("TylError::internal")
    /\ UNCHANGED <<env, settings, policy, tries, contextVars, serdeVars, threadVars, logVars, contextSerdeVars, loopVars>>

New_configuration ==
    /\ CallerOutside
    /\ \E m \in Messages : err' = TylError_configuration(m)
    /\ last' = Made("TylError::configuration")
    /\ UNCHANGED <<env, settings, policy, tries, contextVars, serdeVars, threadVars, logVars, contextSerdeVars, loopVars>>

New_not_implemented ==
    /\ CallerOutside
    /\ \E f \in Fields : err' = TylError_not_implemented(f)
    /\ last' = Made("TylError::not_implemented")
    /\ UNCHANGED <<env, settings, policy, tries, contextVars, serdeVars, threadVars, logVars, contextSerdeVars, loopVars>>

New_business_logic ==
    /\ CallerOutside
    /\ \E m \in Messages, c \in UserClassifiers : err' = TylError_business_logic(m, c)
    /\ last' = Made("TylError::business_logic")
    /\ UNCHANGED <<env, settings, policy, tries, contextVars, serdeVars, threadVars, logVars, contextSerdeVars, loopVars>>

New_parsing ==
    /\ CallerOutside
    /\ \E m \in Messages :
          /\ err' = TylError_parsing(m)
          /\ last' = [NoCall EXCEPT !.op = "TylError::parsing", !.value = m]
    /\ UNCHANGED <<env, settings, policy, tries, contextVars, serdeVars, threadVars, logVars, contextSerdeVars, loopVars>>

New_serialization ==
    /\ CallerOutside
    /\ \E m \in Messages :
          /\ err' = TylError_serialization(m)
          /\ last' = [NoCall EXCEPT !.op = "TylError::serialization", !.value = m]
    /\ UNCHANGED <<env, settings, policy, tries, contextVars, serdeVars, threadVars, logVars, contextSerdeVars, loopVars>>

New_connection ==
    /\ CallerOutside
    /\ \E m \in Messages :
          /\ err' = TylError_connection(m)
          /\ last' = [NoCall EXCEPT !.op = "TylError::connection", !.value = m]
    /\ UNCHANGED <<env, settings, policy, tries, contextVars, serdeVars, threadVars, logVars, contextSerdeVars, loopVars>>

New_initialization ==
    /\ CallerOutside
    /\ \E m \in Messages :
          /\ err' = TylError_initialization(m)
          /\ last' = [NoCall EXCEPT !.op = "TylError::initialization", !.value = m]
    /\ UNCHANGED <<env, settings, policy, tries, contextVars, serdeVars, threadVars, logVars, contextSerdeVars, loopVars>>

Call_category ==
    /\ CallerOutside
    /\ err # NoError
    /\ last' = [NoCall EXCEPT !.op = "TylError::category", !.cat = TylError_category(err)]
    /\ UNCHANGED <<env, settings, err, policy, tries, contextVars, serdeVars, threadVars, logVars, contextSerdeVars, loopVars>>

\* the error the caller asks: the one it holds, or a clone of it
Asked(viaClone) == IF viaClone THEN TylError_clone(err) ELSE err
Via(viaClone, method) ==
    CASE method = "is_retriable" ->
            IF viaClone THEN "TylError::clone().category().is_retriable"
            ELSE "TylError::category().is_retriable"
      [] method = "retry_delay" ->
            IF viaClone THEN "TylError::clone().category().retry_delay"
            ELSE "TylError::category().retry_delay"
      [] method = "category_name" ->
            IF viaClone THEN "TylError::clone().category().category_name"
            ELSE "TylError::category().category_name"

\* e.category().is_retriable()
Call_category_is_retriable ==
    /\ CallerOutside
    /\ err # NoError
    /\ \E viaClone \in BOOLEAN :
          last' = [NoCall EXCEPT !.op = Via(viaClone, "is_retriable"),
                                 !.cat = TylError_category(Asked(viaClone)),
                                 !.flag = ErrorCategory_is_retriable(
                                              TylError_category(Asked(viaClone)))]
    /\ UNCHANGED <<env, settings, err, policy, tries, contextVars, serdeVars, threadVars, logVars, contextSerdeVars, loopVars>>

\* e.category().retry_delay(attempt)
Call_category_retry_delay ==
    /\ CallerOutside
    /\ err # NoError
    /\ \E viaClone \in BOOLEAN :
          last' = [NoCall EXCEPT !.op = Via(viaClone, "retry_delay"),
                                 !.attempt = tries,
                                 !.cat = TylError_category(Asked(viaClone)),
                                 !.delay = ErrorCategory_retry_delay(
                                               TylError_category(Asked(viaClone)), tries)]
    /\ UNCHANGED <<env, settings, err, policy, tries, contextVars, serdeVars, threadVars, logVars, contextSerdeVars, loopVars>>

\* e.category().category_name()
Call_category_category_name ==
    /\ CallerOutside
    /\ err # NoError
    /\ \E viaClone \in BOOLEAN :
          last' = [NoCall EXCEPT !.op = Via(viaClone, "category_name"),
                                 !.cat = TylError_category(Asked(viaClone)),
                                 !.name = ErrorCategory_category_name(
                                              TylError_category(Asked(viaClone)))]
    /\ UNCHANGED <<env, settings, err, policy, tries, contextVars, serdeVars, threadVars, logVars, contextSerdeVars, loopVars>>

Call_max_retries ==
    /\ Caller_global(TRUE)
    /\ settings' = TylError_max_retries(settings, threads[Caller])
    /\ last' = [NoCall EXCEPT !.op = "TylError::max_retries",
                              !.attempt = TylError_max_retries(settings, threads[Caller]).max_retries]
    /\ UNCHANGED <<env, err, policy, tries, contextVars, serdeVars, logVars, contextSerdeVars, loopVars>>

Call_should_retry ==
    /\ err # NoError
    /\ Caller_global(ErrorCategory_is_retriable(TylError_category(err)))
    /\ settings' = TylError_should_retry_cell(err, settings, threads[Caller])
    /\ last' = [NoCall EXCEPT !.op = "TylError::should_retry", !.attempt = tries,
                              !.flag = TylError_should_retry(err, tries, settings, threads[Caller])]
    /\ UNCHANGED <<env, err, policy, tries, contextVars, serdeVars, logVars, contextSerdeVars, loopVars>>

(* ---- settings.rs and the static accessors of error.rs ---- *)
\* std::env::set_var / remove_var
Set_var ==
    /\ \E name \in EnvNames :
          \E v \in SetVarValues(name) :
             /\ env[name] # v
             /\ env' = [env EXCEPT ![name] = v]
    /\ last' = Made("std::env::set_var")
    /\ UNCHANGED <<settings, err, policy, tries, contextVars, serdeVars, threadVars, logVars, contextSerdeVars, loopVars>>

Call_global ==
    /\ Caller_global(TRUE)
    /\ settings' = ErrorSettings_global(settings, threads[Caller])
    /\ last' = [NoCall EXCEPT !.op = "ErrorSettings::global",
                              !.flag = ErrorSettings_global(settings, threads[Caller]).backtrace_enabled,
                              !.attempt = ErrorSettings_global(settings, threads[Caller]).max_retries,
                              !.level = ErrorSettings_global(settings, threads[Caller]).log_level]
    /\ UNCHANGED <<env, err, policy, tries, contextVars, serdeVars, logVars, contextSerdeVars, loopVars>>

Call_backtrace_enabled ==
    /\ Caller_global(TRUE)
    /\ settings' = TylError_backtrace_enabled(settings, threads[Caller])
    /\ last' = [NoCall EXCEPT !.op = "TylError::backtrace_enabled",
                              !.flag = TylError_backtrace_enabled(settings, threads[Caller]).backtrace_enabled]
    /\ UNCHANGED <<env, err, policy, tries, contextVars, serdeVars, logVars, contextSerdeVars, loopVars>>

Call_log_errors_enabled ==
    /\ Caller_global(TRUE)
    /\ settings' = TylError_log_errors_enabled(settings, threads[Caller])
    /\ last' = [NoCall EXCEPT !.op = "TylError::log_errors_enabled",
                              !.flag = TylError_log_errors_enabled(settings, threads[Caller]).log_errors]
    /\ UNCHANGED <<env, err, policy, tries, contextVars, serdeVars, logVars, contextSerdeVars, loopVars>>

Call_log_level ==
    /\ Caller_global(TRUE)
    /\ settings' = TylError_log_level(settings, threads[Caller])
    /\ last' = [NoCall EXCEPT !.op = "TylError::log_level",
                              !.level = TylError_log_level(settings, threads[Caller]).log_level]
    /\ UNCHANGED <<env, err, policy, tries, contextVars, serdeVars, logVars, contextSerdeVars, loopVars>>

\* the variables that configure logging, and the values a process gives them
LogEnvNames == { "TYL_ERROR_LOG_ERRORS", "TYL_ERROR_LOG_LEVEL" }

LogVarValues(name) ==
    CASE name = "TYL_ERROR_LOG_ERRORS" -> { Unset, Val(<<"F", "A", "L", "S", "E">>) }
      [] name = "TYL_ERROR_LOG_LEVEL" ->
            { Unset, Val(<<"e", "r", "r", "o", "r">>), Val(<<"W", "a", "r", "n">>),
              Val(<<"D", "e", "b", "u", "g">>) }

Set_log_var ==
    /\ \E name \in LogEnvNames :
          \E v \in LogVarValues(name) :
             /\ env[name] # v
             /\ env' = [env EXCEPT ![name] = v]
    /\ last' = Made("std::env::set_var")
    /\ UNCHANGED <<settings, err, policy, tries, contextVars, serdeVars, threadVars, logVars, contextSerdeVars, loopVars>>

Call_log_if_enabled ==
    /\ err # NoError
    /\ Len(stderr) < MaxLines
    /\ Caller_global(TRUE)
    /\ \E level \in LogLevels :
          /\ stderr' = stderr \o TylError_log_if_enabled(err, level, settings, threads[Caller])
          /\ last' = [NoCall EXCEPT !.op = "TylError::log_if_enabled", !.level = level]
    /\ settings' = TylError_log_if_enabled_cell(settings, threads[Caller])
    /\ UNCHANGED <<env, err, policy, tries, contextVars, serdeVars, contextSerdeVars, loopVars>>

(* ---- settings.rs: ErrorSettings::global() in several threads ---- *)
\* a thread calls ErrorSettings::global()
Global_enter ==
    /\ \E t \in Threads :
          /\ threads[t].pc = "idle"
          /\ threads' = [threads EXCEPT
                ![t] = [pc |-> IF OnceLock_enter(once) = "running" THEN ClosureEntry.pc
                               ELSE OnceLock_enter(once),
                        got |-> IF OnceLock_enter(once) = "returned" THEN settings
                                ELSE Uninitialized]]
          /\ once' = IF OnceLock_enter(once) = "running"
                     THEN [once EXCEPT !.state = "running"] ELSE once
    /\ UNCHANGED <<env, settings, err, policy, tries, last, contextVars, serdeVars, logVars, contextSerdeVars, loopVars>>

\* the closure's value is stored in the cell, the Once completes, the thread returns
Global_install ==
    /\ \E t \in Threads :
          /\ threads[t].pc = "loaded"
          /\ settings' = threads[t].got
          /\ threads' = [threads EXCEPT ![t].pc = "returned"]
    /\ once' = [state |-> "complete", ran |-> once.ran + 1]
    /\ UNCHANGED <<env, err, policy, tries, last, contextVars, serdeVars, logVars, contextSerdeVars, loopVars>>

\* a waiting thread is released by the completed Once and returns the cell
Global_wake ==
    /\ once.state = "complete"
    /\ \E t \in Threads :
          /\ threads[t].pc = "waiting"
          /\ threads' = [threads EXCEPT ![t] = [pc |-> "returned", got |-> settings]]
    /\ last' = Made("ErrorSettings::global after waiting")
    /\ UNCHANGED <<env, settings, err, policy, tries, once, contextVars, serdeVars, logVars, contextSerdeVars, loopVars>>

\* the thread goes on, to call again later
Global_again ==
    /\ \E t \in Threads :
          /\ threads[t].pc = "returned"
          /\ threads' = [threads EXCEPT ![t] = ThreadIdle]
    /\ UNCHANGED <<env, settings, err, policy, tries, last, once, contextVars, serdeVars, logVars, contextSerdeVars, loopVars>>

\* some thread changes TYL_ERROR_MAX_RETRIES
Set_max_retries ==
    /\ \E v \in EnvMaxRetriesValues :
          /\ env.TYL_ERROR_MAX_RETRIES # v
          /\ env' = [env EXCEPT !.TYL_ERROR_MAX_RETRIES = v]
    /\ UNCHANGED <<settings, err, policy, tries, last, contextVars, serdeVars, threadVars, logVars, contextSerdeVars, loopVars>>

(* ---- serde ---- *)
\* serde_json::to_string(&err)
Serialize_error ==
    /\ CallerOutside
    /\ err # NoError
    /\ wire' = TylError_serialize(err)
    /\ last' = Made("serde_json::to_string")
    /\ UNCHANGED <<env, settings, err, policy, tries, back, contextVars, threadVars, logVars, contextSerdeVars, loopVars>>

\* serde_json::from_str(&json)
Deserialize_error ==
    /\ CallerOutside
    /\ wire # NoWire
    /\ back' = TylError_deserialize(wire)
    /\ last' = Made("serde_json::from_str")
    /\ UNCHANGED <<env, settings, err, policy, tries, wire, contextVars, threadVars, logVars, contextSerdeVars, loopVars>>

(* ---- context.rs ---- *)
To_context ==
    /\ CallerOutside
    /\ err # NoError
    /\ \E operation \in Operations, id \in Uuids, now \in Instants :
          /\ ctx' = TylError_to_context(err, operation, id, now)
          /\ last' = [NoCall EXCEPT !.op = "TylError::to_context", !.name = operation]
    /\ calls' = <<>>
    /\ UNCHANGED <<env, settings, err, policy, tries, serdeVars, threadVars, logVars, contextSerdeVars, loopVars>>

Context_new ==
    /\ CallerOutside
    /\ \E operation \in Operations, category \in ContextCategories,
          message \in ContextMessages, id \in Uuids, now \in Instants :
          /\ ctx' = ErrorContext_new(operation, category, message, id, now)
          /\ last' = [NoCall EXCEPT !.op = "ErrorContext::new", !.name = operation,
                                    !.cat = category]
    /\ calls' = <<>>
    /\ UNCHANGED <<env, settings, err, policy, tries, serdeVars, threadVars, logVars, contextSerdeVars, loopVars>>

\* serde_json::to_string(&context); the caller writes its context out once
\* a context another program could have written
ForeignContext ==
    ErrorContext_serialize(
        [ error_id |-> [i \in 1..32 |-> IF i % 2 = 0 THEN "a" ELSE "7"],
          operation |-> "save_user", category |-> ErrorCategory_unknown,
          message |-> << "Timeout" >>,
          occurred_at |-> [ year |-> 2024, month |-> 2, day |-> 29, hour |-> 23, minute |-> 30,
                            second |-> 0, nano |-> 0 ],
          attempt_count |-> USIZE(2), metadata |-> EmptyMap ])

\* JSON documents from elsewhere: that context as the library writes it and in
\* other spellings of the same values, and documents that are not contexts
ForeignDocuments ==
    { ForeignContext,
      [ForeignContext EXCEPT
          !.error_id = JsonString(<< "{" >> \o to_uppercase(ForeignContext.error_id.text)
                                     \o << "}" >>),
          !.occurred_at =
              JsonString(<< "2", "0", "2", "4", "-", "0", "3", "-", "0", "1", "T", "0", "1", ":", "3", "0", ":", "0", "0", ".", "0", "0", "0", "+", "0", "2", ":", "0", "0" >>)],
      \* the same instant as chrono also reads it: " 2024-3-1 1:30: 0.0 +0200 "
      [ForeignContext EXCEPT
          !.occurred_at =
              JsonString(<< " ", "2", "0", "2", "4", "-", "3", "-", "1", " ", "1", ":", "3", "0", ":", " ", "0", ".", "0", " ", "+", "0", "2", "0", "0", " " >>)],
      [ForeignContext EXCEPT !.error_id = JsonString(<< "n", "o", "t", "-", "a", "-", "u", "u", "i", "d" >>)],
      [ForeignContext EXCEPT !.occurred_at = JsonString(<< "y", "e", "s", "t", "e", "r", "d", "a", "y" >>)],
      [ForeignContext EXCEPT !.attempt_count = JsonNumber(<< "-", "1" >>)],
      [ForeignContext EXCEPT !.metadata = JsonNull],
      [k \in SerializedContextFields \ { "message" } |-> ForeignContext[k]] }

\* the caller is handed a JSON document written elsewhere
Receive_context ==
    /\ CallerOutside
    /\ ctxWire = NoWire
    /\ ctxWire' \in ForeignDocuments
    /\ last' = Made("a JSON document from elsewhere")
    /\ UNCHANGED <<env, settings, err, policy, tries, ctxBack, contextVars, serdeVars, threadVars, logVars, loopVars>>

Serialize_context ==
    /\ CallerOutside
    /\ ctx # NoContext
    /\ ctxWire = NoWire
    /\ ctxWire' = ErrorContext_serialize(ctx)
    /\ last' = Made("serde_json::to_string(&ErrorContext)")
    /\ UNCHANGED <<env, settings, err, policy, tries, ctxBack, contextVars, serdeVars, threadVars, logVars, loopVars>>

\* serde_json::from_str::<ErrorContext>(&json); the caller reads it back once
Deserialize_context ==
    /\ CallerOutside
    /\ ctxWire # NoWire
    /\ ctxBack = NoContext
    /\ ctxBack' = ErrorContext_deserialize(ctxWire)
    /\ last' = [NoCall EXCEPT !.op = "serde_json::from_str::<ErrorContext>",
                              !.flag = ctxBack' # NoContext]
    /\ UNCHANGED <<env, settings, err, policy, tries, ctxWire, contextVars, serdeVars, threadVars, logVars, loopVars>>

Context_with_metadata ==
    /\ CallerOutside
    /\ ctx # NoContext
    /\ Len(calls) < MaxCalls
    /\ \E key \in MetadataKeys, value \in MetadataValues :
          /\ ctx' = ErrorContext_with_metadata(ctx, key, value)
          /\ calls' = Append(calls, Inserted(key, value))
          /\ last' = [NoCall EXCEPT !.op = "ErrorContext::with_metadata", !.key = key,
                                    !.value = value]
    /\ UNCHANGED <<env, settings, err, policy, tries, serdeVars, threadVars, logVars, contextSerdeVars, loopVars>>

Context_increment_attempt ==
    /\ CallerOutside
    /\ ctx # NoContext
    /\ Len(calls) < MaxCalls
    /\ ctx' = ErrorContext_increment_attempt(ctx)
    /\ calls' = Append(calls, Incremented)
    /\ last' = Made("ErrorContext::increment_attempt")
    /\ UNCHANGED <<env, settings, err, policy, tries, serdeVars, threadVars, logVars, contextSerdeVars, loopVars>>

Context_add_metadata ==
    /\ CallerOutside
    /\ ctx # NoContext
    /\ Len(calls) < MaxCalls
    /\ \E key \in MetadataKeys, value \in MetadataValues :
          /\ ctx' = ErrorContext_add_metadata(ctx, key, value)
          /\ calls' = Append(calls, Inserted(key, value))
          /\ last' = [NoCall EXCEPT !.op = "ErrorContext::add_metadata", !.key = key,
                                    !.value = value]
    /\ UNCHANGED <<env, settings, err, policy, tries, serdeVars, threadVars, logVars, contextSerdeVars, loopVars>>

Context_get_metadata ==
    /\ CallerOutside
    /\ ctx # NoContext
    /\ \E key \in MetadataKeys :
          last' = [NoCall EXCEPT !.op = "ErrorContext::get_metadata", !.key = key,
                                 !.flag = ErrorContext_get_metadata(ctx, key).some,
                                 !.value = ErrorContext_get_metadata(ctx, key).value]
    /\ UNCHANGED <<env, settings, err, policy, tries, contextVars, serdeVars, threadVars, logVars, contextSerdeVars, loopVars>>

Context_has_metadata ==
    /\ CallerOutside
    /\ ctx # NoContext
    /\ \E key \in MetadataKeys :
          last' = [NoCall EXCEPT !.op = "ErrorContext::has_metadata", !.key = key,
                                 !.flag = ErrorContext_has_metadata(ctx, key)]
    /\ UNCHANGED <<env, settings, err, policy, tries, contextVars, serdeVars, threadVars, logVars, contextSerdeVars, loopVars>>

Context_clear_metadata ==
    /\ CallerOutside
    /\ ctx # NoContext
    /\ Len(calls) < MaxCalls
    /\ ctx' = ErrorContext_clear_metadata(ctx)
    /\ calls' = Append(calls, Cleared)
    /\ last' = Made("ErrorContext::clear_metadata")
    /\ UNCHANGED <<env, settings, err, policy, tries, serdeVars, threadVars, logVars, contextSerdeVars, loopVars>>

Context_metadata_count ==
    /\ CallerOutside
    /\ ctx # NoContext
    /\ last' = [NoCall EXCEPT !.op = "ErrorContext::metadata_count",
                              !.attempt = USIZE(ErrorContext_metadata_count(ctx))]
    /\ UNCHANGED <<env, settings, err, policy, tries, contextVars, serdeVars, threadVars, logVars, contextSerdeVars, loopVars>>

(* ---- lib.rs ---- *)
\* the caller asks a BuiltinCategory its questions before it builds a context
Call_lib_is_retriable ==
    /\ CallerOutside
    /\ ctx = NoContext
    /\ \E b \in BuiltinCategory :
          last' = [NoCall EXCEPT !.op = "lib::BuiltinCategory::is_retriable", !.cat = Builtin(b),
                                 !.flag = lib_BuiltinCategory_is_retriable(b)]
    /\ UNCHANGED <<env, settings, err, policy, tries, contextVars, serdeVars, threadVars, logVars, contextSerdeVars, loopVars>>

Call_lib_retry_delay ==
    /\ CallerOutside
    /\ ctx = NoContext
    /\ \E b \in BuiltinCategory, attempt \in Attempts :
          last' = [NoCall EXCEPT !.op = "lib::BuiltinCategory::retry_delay", !.cat = Builtin(b),
                                 !.attempt = attempt,
                                 !.delay = lib_BuiltinCategory_retry_delay(b, attempt)]
    /\ UNCHANGED <<env, settings, err, policy, tries, contextVars, serdeVars, threadVars, logVars, contextSerdeVars, loopVars>>

Call_lib_category_name ==
    /\ CallerOutside
    /\ ctx = NoContext
    /\ \E b \in BuiltinCategory :
          last' = [NoCall EXCEPT !.op = "lib::BuiltinCategory::category_name", !.cat = Builtin(b),
                                 !.name = lib_BuiltinCategory_category_name(b)]
    /\ UNCHANGED <<env, settings, err, policy, tries, contextVars, serdeVars, threadVars, logVars, contextSerdeVars, loopVars>>

Call_lib_category ==
    /\ CallerOutside
    /\ err # NoError
    /\ last' = [NoCall EXCEPT !.op = "lib::TylError::category", !.cat = lib_TylError_category(err)]
    /\ UNCHANGED <<env, settings, err, policy, tries, contextVars, serdeVars, threadVars, logVars, contextSerdeVars, loopVars>>

Lib_to_context ==
    /\ CallerOutside
    /\ err # NoError
    /\ \E operation \in Operations, id \in Uuids, now \in Instants :
          /\ ctx' = lib_TylError_to_context(err, operation, id, now)
          /\ last' = [NoCall EXCEPT !.op = "lib::TylError::to_context", !.name = operation]
    /\ calls' = <<>>
    /\ UNCHANGED <<env, settings, err, policy, tries, serdeVars, threadVars, logVars, contextSerdeVars, loopVars>>

Lib_context_new ==
    /\ CallerOutside
    /\ \E operation \in Operations, category \in ContextCategories,
          message \in ContextMessages, id \in Uuids, now \in Instants :
          /\ ctx' = lib_ErrorContext_new(operation, category, message, id, now)
          /\ last' = [NoCall EXCEPT !.op = "lib::ErrorContext::new", !.name = operation,
                                    !.cat = category]
    /\ calls' = <<>>
    /\ UNCHANGED <<env, settings, err, policy, tries, serdeVars, threadVars, logVars, contextSerdeVars, loopVars>>

Lib_parsing ==
    /\ CallerOutside
    /\ \E m \in Messages :
          /\ err' = lib_TylError_parsing(m)
          /\ last' = [NoCall EXCEPT !.op = "lib::TylError::parsing", !.value = m]
    /\ UNCHANGED <<env, settings, policy, tries, contextVars, serdeVars, threadVars, logVars, contextSerdeVars, loopVars>>

Lib_serialization ==
    /\ CallerOutside
    /\ \E m \in Messages :
          /\ err' = lib_TylError_serialization(m)
          /\ last' = [NoCall EXCEPT !.op = "lib::TylError::serialization", !.value = m]
    /\ UNCHANGED <<env, settings, policy, tries, contextVars, serdeVars, threadVars, logVars, contextSerdeVars, loopVars>>

Lib_connection ==
    /\ CallerOutside
    /\ \E m \in Messages :
          /\ err' = lib_TylError_connection(m)
          /\ last' = [NoCall EXCEPT !.op = "lib::TylError::connection", !.value = m]
    /\ UNCHANGED <<env, settings, policy, tries, contextVars, serdeVars, threadVars, logVars, contextSerdeVars, loopVars>>

Lib_initialization ==
    /\ CallerOutside
    /\ \E m \in Messages :
          /\ err' = lib_TylError_initialization(m)
          /\ last' = [NoCall EXCEPT !.op = "lib::TylError::initialization", !.value = m]
    /\ UNCHANGED <<env, settings, policy, tries, contextVars, serdeVars, threadVars, logVars, contextSerdeVars, loopVars>>

(* ---- a caller's retry loop over should_retry ---- *)
\* let mut attempt = 0, on the error the caller holds
Loop_start_error ==
    /\ CallerOutside
    /\ err # NoError
    /\ retryLoop.pc \in { "idle", "done" }
    /\ retryLoop' = [ pc |-> "check", by |-> "TylError", subject |-> err,
                      attempt |-> USIZE(0), retries |-> 0 ]
    /\ UNCHANGED <<env, settings, err, policy, tries, last, contextVars, serdeVars, threadVars, logVars, contextSerdeVars>>

\* let mut attempt = 0, on the policy the caller holds
Loop_start_policy ==
    /\ CallerOutside
    /\ policy # NoPolicy
    /\ retryLoop.pc \in { "idle", "done" }
    /\ retryLoop' = [ pc |-> "check", by |-> "RetryPolicy", subject |-> policy,
                      attempt |-> USIZE(0), retries |-> 0 ]
    /\ UNCHANGED <<env, settings, err, policy, tries, last, contextVars, serdeVars, threadVars, logVars, contextSerdeVars>>

\* while error.should_retry(attempt)
Loop_check_error ==
    /\ retryLoop.pc = "check"
    /\ retryLoop.by = "TylError"
    /\ Caller_global(ErrorCategory_is_retriable(TylError_category(retryLoop.subject)))
    /\ settings' = TylError_should_retry_cell(retryLoop.subject, settings, threads[Caller])
    /\ retryLoop' = [retryLoop EXCEPT !.pc =
          IF TylError_should_retry(retryLoop.subject, retryLoop.attempt, settings, threads[Caller])
          THEN "retry" ELSE "done"]
    /\ UNCHANGED <<env, err, policy, tries, last, contextVars, serdeVars, logVars, contextSerdeVars>>

\* while policy.should_retry(attempt)
Loop_check_policy ==
    /\ CallerOutside
    /\ retryLoop.pc = "check"
    /\ retryLoop.by = "RetryPolicy"
    /\ retryLoop' = [retryLoop EXCEPT !.pc =
          IF RetryPolicy_should_retry(retryLoop.subject, retryLoop.attempt)
          THEN "retry" ELSE "done"]
    /\ UNCHANGED <<env, settings, err, policy, tries, last, contextVars, serdeVars, threadVars, logVars, contextSerdeVars>>

\* the body: one retry, then attempt += 1
Loop_retry ==
    /\ CallerOutside
    /\ retryLoop.pc = "retry"
    /\ retryLoop' = [retryLoop EXCEPT !.pc = "check", !.attempt = UAddOne(@),
                                      !.retries = @ + 1]
    /\ UNCHANGED <<env, settings, err, policy, tries, last, contextVars, serdeVars, threadVars, logVars, contextSerdeVars>>

(* ---- retry.rs: impl RetryableError for TylError ---- *)
Call_RetryableError_should_retry ==
    /\ err # NoError
    /\ Caller_global(ErrorCategory_is_retriable(TylError_category(err)))
    /\ settings' = TylError_should_retry_cell(err, settings, threads[Caller])
    /\ last' = [NoCall EXCEPT !.op = "RetryableError::should_retry", !.attempt = tries,
                              !.flag = RetryableError_should_retry(err, tries, settings, threads[Caller])]
    /\ UNCHANGED <<env, err, policy, tries, contextVars, serdeVars, logVars, contextSerdeVars, loopVars>>

Call_RetryableError_retry_delay ==
    /\ CallerOutside
    /\ err # NoError
    /\ last' = [NoCall EXCEPT !.op = "RetryableError::retry_delay", !.attempt = tries,
                              !.cat = TylError_category(err),
                              !.delay = RetryableError_retry_delay(err, tries)]
    /\ UNCHANGED <<env, settings, err, policy, tries, contextVars, serdeVars, threadVars, logVars, contextSerdeVars, loopVars>>

Call_RetryableError_max_retries ==
    /\ err # NoError
    /\ Caller_global(TRUE)
    /\ settings' = RetryableError_max_retries(settings, threads[Caller])
    /\ last' = [NoCall EXCEPT !.op = "RetryableError::max_retries",
                              !.attempt = RetryableError_max_retries(settings, threads[Caller]).max_retries]
    /\ UNCHANGED <<env, err, policy, tries, contextVars, serdeVars, logVars, contextSerdeVars, loopVars>>

(* ---- retry.rs: RetryPolicy ---- *)
Policy_default ==
    /\ CallerOutside
    /\ policy' = RetryPolicy_default
    /\ last' = Made("RetryPolicy::default")
    /\ UNCHANGED <<env, settings, err, tries, contextVars, serdeVars, threadVars, logVars, contextSerdeVars, loopVars>>

Policy_new ==
    /\ CallerOutside
    /\ policy' = RetryPolicy_new
    /\ last' = Made("RetryPolicy::new")
    /\ UNCHANGED <<env, settings, err, tries, contextVars, serdeVars, threadVars, logVars, contextSerdeVars, loopVars>>

Policy_fast ==
    /\ CallerOutside
    /\ policy' = RetryPolicy_fast
    /\ last' = Made("RetryPolicy::fast")
    /\ UNCHANGED <<env, settings, err, tries, contextVars, serdeVars, threadVars, logVars, contextSerdeVars, loopVars>>

Policy_standard ==
    /\ CallerOutside
    /\ policy' = RetryPolicy_standard
    /\ last' = Made("RetryPolicy::standard")
    /\ UNCHANGED <<env, settings, err, tries, contextVars, serdeVars, threadVars, logVars, contextSerdeVars, loopVars>>

Policy_slow ==
    /\ CallerOutside
    /\ policy' = RetryPolicy_slow
    /\ last' = Made("RetryPolicy::slow")
    /\ UNCHANGED <<env, settings, err, tries, contextVars, serdeVars, threadVars, logVars, contextSerdeVars, loopVars>>

Policy_network ==
    /\ CallerOutside
    /\ policy' = RetryPolicy_network
    /\ last' = Made("RetryPolicy::network")
    /\ UNCHANGED <<env, settings, err, tries, contextVars, serdeVars, threadVars, logVars, contextSerdeVars, loopVars>>

Policy_database ==
    /\ CallerOutside
    /\ policy' = RetryPolicy_database
    /\ last' = Made("RetryPolicy::database")
    /\ UNCHANGED <<env, settings, err, tries, contextVars, serdeVars, threadVars, logVars, contextSerdeVars, loopVars>>

Policy_with_max_attempts ==
    /\ CallerOutside
    /\ policy # NoPolicy
    /\ \E n \in MaxAttemptsChoices : policy' = RetryPolicy_with_max_attempts(policy, n)
    /\ last' = Made("RetryPolicy::with_max_attempts")
    /\ UNCHANGED <<env, settings, err, tries, contextVars, serdeVars, threadVars, logVars, contextSerdeVars, loopVars>>

Policy_with_base_delay ==
    /\ CallerOutside
    /\ policy # NoPolicy
    /\ \E d \in BaseDelayChoices : policy' = RetryPolicy_with_base_delay(policy, d)
    /\ last' = Made("RetryPolicy::with_base_delay")
    /\ UNCHANGED <<env, settings, err, tries, contextVars, serdeVars, threadVars, logVars, contextSerdeVars, loopVars>>

Policy_with_max_delay ==
    /\ CallerOutside
    /\ policy # NoPolicy
    /\ \E d \in MaxDelayChoices : policy' = RetryPolicy_with_max_delay(policy, d)
    /\ last' = Made("RetryPolicy::with_max_delay")
    /\ UNCHANGED <<env, settings, err, tries, contextVars, serdeVars, threadVars, logVars, contextSerdeVars, loopVars>>

Policy_with_backoff_multiplier ==
    /\ CallerOutside
    /\ policy # NoPolicy
    /\ \E m \in MultiplierChoices : policy' = RetryPolicy_with_backoff_multiplier(policy, m)
    /\ last' = Made("RetryPolicy::with_backoff_multiplier")
    /\ UNCHANGED <<env, settings, err, tries, contextVars, serdeVars, threadVars, logVars, contextSerdeVars, loopVars>>

Policy_with_jitter ==
    /\ CallerOutside
    /\ policy # NoPolicy
    /\ \E j \in BOOLEAN : policy' = RetryPolicy_with_jitter(policy, j)
    /\ last' = Made("RetryPolicy::with_jitter")
    /\ UNCHANGED <<env, settings, err, tries, contextVars, serdeVars, threadVars, logVars, contextSerdeVars, loopVars>>

\* add_jitter hashes the thread id and the system time: any hash can come out
Call_calculate_delay ==
    /\ CallerOutside
    /\ policy # NoPolicy
    /\ \E h \in IF policy.jitter /\ tries # USIZE(0) THEN JitterHashes ELSE {-1} :
          last' = [NoCall EXCEPT !.op = "RetryPolicy::calculate_delay", !.attempt = tries,
                                 !.hash = h,
                                 !.delay = RetryPolicy_calculate_delay(policy, tries, h)]
    /\ UNCHANGED <<env, settings, err, policy, tries, contextVars, serdeVars, threadVars, logVars, contextSerdeVars, loopVars>>

Call_policy_should_retry ==
    /\ CallerOutside
    /\ policy # NoPolicy
    /\ last' = [NoCall EXCEPT !.op = "RetryPolicy::should_retry", !.attempt = tries,
                              !.flag = RetryPolicy_should_retry(policy, tries)]
    /\ UNCHANGED <<env, settings, err, policy, tries, contextVars, serdeVars, threadVars, logVars, contextSerdeVars, loopVars>>

(* ---- the components, and the whole ---- *)
NextCategory ==
    \/ SetAttempt
    \/ Call_BuiltinCategory_is_retriable
    \/ Call_BuiltinCategory_retry_delay
    \/ Call_ErrorCategory_is_retriable
    \/ Call_ErrorCategory_retry_delay
    \/ Call_ErrorCategory_category_name

NextError ==
    \/ SetAttempt
    \/ New_database
    \/ New_network
    \/ New_validation
    \/ New_not_found
    \/ New_conflict
    \/ New_internal
    \/ New_configuration
    \/ New_not_implemented
    \/ New_business_logic
    \/ Call_category
    \/ Caller_enter
    \/ Closure_read
    \/ Call_global
    \/ Call_max_retries
    \/ Call_should_retry
    \/ Call_RetryableError_should_retry
    \/ Call_RetryableError_retry_delay
    \/ Call_RetryableError_max_retries

NextPolicy ==
    \/ SetAttempt
    \/ Policy_default
    \/ Policy_new
    \/ Policy_fast
    \/ Policy_standard
    \/ Policy_slow
    \/ Policy_network
    \/ Policy_database
    \/ Policy_with_max_attempts
    \/ Policy_with_base_delay
    \/ Policy_with_max_delay
    \/ Policy_with_backoff_multiplier
    \/ Policy_with_jitter
    \/ Call_calculate_delay
    \/ Call_policy_should_retry

\* a caller deciding whether to retry, by the error or by a policy
NextDecision ==
    \/ SetAttempt
    \/ New_database
    \/ New_validation
    \/ New_business_logic
    \/ Caller_enter
    \/ Closure_read
    \/ Call_global
    \/ Call_should_retry
    \/ Policy_new
    \/ Policy_slow
    \/ Policy_with_max_attempts
    \/ Call_policy_should_retry

\* a caller of a custom classifier, directly and through a Custom error
NextCustom ==
    \/ SetAttempt
    \/ New_database
    \/ New_business_logic
    \/ Call_ErrorCategory_is_retriable
    \/ Call_ErrorCategory_retry_delay
    \/ Call_ErrorCategory_category_name
    \/ Call_category_is_retriable
    \/ Call_category_retry_delay
    \/ Call_category_category_name

\* a caller sending errors through JSON
NextSerde ==
    \/ New_database
    \/ New_network
    \/ New_validation
    \/ New_not_found
    \/ New_conflict
    \/ New_internal
    \/ New_configuration
    \/ New_not_implemented
    \/ New_business_logic
    \/ Serialize_error
    \/ Deserialize_error

\* a caller turning errors into contexts
NextToContext ==
    \/ New_database
    \/ New_network
    \/ New_validation
    \/ New_not_found
    \/ New_conflict
    \/ New_internal
    \/ New_configuration
    \/ New_not_implemented
    \/ New_business_logic
    \/ To_context

\* a caller tracking one operation in an ErrorContext
NextContext ==
    \/ Context_new
    \/ Context_with_metadata
    \/ Context_increment_attempt
    \/ Context_add_metadata
    \/ Context_get_metadata
    \/ Context_has_metadata
    \/ Context_clear_metadata
    \/ Context_metadata_count

\* a process reading its settings while its environment changes
NextSettings ==
    \/ Set_var
    \/ New_database
    \/ Caller_enter
    \/ Closure_read
    \/ Call_should_retry
    \/ Call_global
    \/ Call_backtrace_enabled
    \/ Call_max_retries
    \/ Call_log_errors_enabled
    \/ Call_log_level

\* threads racing for the first access
NextThreads ==
    \/ Global_enter
    \/ Closure_read
    \/ Global_install
    \/ Global_wake
    \/ Global_again
    \/ Set_max_retries

\* a process logging its errors
NextLog ==
    \/ Set_log_var
    \/ New_network
    \/ New_validation
    \/ Caller_enter
    \/ Closure_read
    \/ Call_global
    \/ Call_log_if_enabled

\* a caller of the convenience constructors
NextSugar ==
    \/ SetAttempt
    \/ New_parsing
    \/ New_serialization
    \/ New_connection
    \/ New_initialization
    \/ Call_category
    \/ Call_should_retry

\* a caller serializing and deserializing its context
NextContextSerde ==
    \/ Context_new
    \/ Context_with_metadata
    \/ Serialize_context
    \/ Receive_context
    \/ Deserialize_context

\* a caller retrying in a loop
NextLoop ==
    \/ New_database
    \/ New_conflict
    \/ Policy_slow
    \/ Policy_with_max_attempts
    \/ Caller_enter
    \/ Closure_read
    \/ Call_global
    \/ Loop_start_error
    \/ Loop_start_policy
    \/ Loop_check_error
    \/ Loop_check_policy
    \/ Loop_retry

\* a caller of the crate root's definitions
NextLib ==
    \/ New_database
    \/ New_network
    \/ New_validation
    \/ New_not_found
    \/ New_conflict
    \/ New_internal
    \/ New_configuration
    \/ New_not_implemented
    \/ New_business_logic
    \/ Call_lib_is_retriable
    \/ Call_lib_retry_delay
    \/ Call_lib_category_name
    \/ Call_lib_category
    \/ Lib_to_context
    \/ Lib_context_new
    \/ Lib_parsing
    \/ Lib_serialization
    \/ Lib_connection
    \/ Lib_initialization

Next == NextCategory \/ NextError \/ NextPolicy \/ NextCustom \/ NextSerde \/ NextToContext \/ NextContext \/ NextSettings \/ NextThreads \/ NextLog \/ NextSugar \/ NextContextSerde \/ NextLoop \/ NextLib

\* a caller of the categories alone
SpecCategory == Init /\ [][NextCategory]_vars
\* a caller of TylError and of the process-wide settings
SpecError == Init /\ [][NextError]_vars
\* a caller of RetryPolicy
SpecPolicy == InitUnset /\ [][NextPolicy]_vars
\* a caller of the two retry decisions
SpecDecision == Init /\ [][NextDecision]_vars
\* a caller of custom classifiers
SpecCustom == InitUnset /\ [][NextCustom]_vars
\* a caller serializing and deserializing errors
SpecSerde == InitUnset /\ [][NextSerde]_vars
\* a caller of TylError::to_context
SpecToContext == InitUnset /\ [][NextToContext]_vars
\* a caller of ErrorContext
SpecContext == InitUnset /\ [][NextContext]_vars
\* a process reading the settings
SpecSettings == InitUnset /\ [][NextSettings]_vars
\* threads calling ErrorSettings::global()
SpecThreads == InitUnset /\ [][NextThreads]_vars
\* a process logging its errors
SpecLog == InitUnset /\ [][NextLog]_vars
\* a caller of the convenience constructors
SpecSugar == InitUnset /\ [][NextSugar]_vars
\* a caller serializing and deserializing its context
SpecContextSerde == InitUnset /\ [][NextContextSerde]_vars
\* a caller retrying in a loop; a running loop takes its next step, and a call
\* that has to read the settings goes into ErrorSettings::global() and through it
SpecLoop ==
    /\ Init /\ [][NextLoop]_vars
    /\ WF_vars(Loop_check_error) /\ WF_vars(Loop_check_policy) /\ WF_vars(Loop_retry)
    /\ WF_vars(Caller_enter) /\ WF_vars(Closure_read) /\ WF_vars(Call_global)
\* a caller of the crate root's definitions
SpecLib == InitUnset /\ [][NextLib]_vars
\* a caller of the whole library
Spec == Init /\ [][Next]_vars

(***************************************************************************)
(* Properties.  What the specification says is written here on its own     *)
(* terms: tables and arithmetic, not the operators above.                  *)
(***************************************************************************)
\* the number a small usize holds
Small(u) == u[3] * Limb + u[4]
\* the usize values below the small number n
Below(n) == { USIZE(k) : k \in 0..(n - 1) }

SpecBaseDelay(b) ==
    CASE b = "Transient" -> 100
      [] b = "Network" -> 500
      [] b = "ServiceUnavailable" -> 1000
      [] b = "ResourceExhaustion" -> 5000
      [] b \in { "Permanent", "Authentication", "Validation", "Internal", "Unknown" } -> 100

\* min(2^min(a, 10), 60)
SpecMultiplier(a) ==
    LET k == IF a \in Below(10) THEN Small(a) ELSE 10
    IN  IF 2^k < 60 THEN 2^k ELSE 60

SpecRetriable == { "Transient", "Network", "ServiceUnavailable", "ResourceExhaustion" }

BuiltinDelayReturned ==
    /\ last.op \in { "BuiltinCategory::retry_delay", "ErrorCategory::retry_delay" }
    /\ last.cat.kind = "Builtin"

\* C1: for every built-in category C and attempt a >= 0, retry_delay(C, a) is
\* base_delay(C) * min(2^min(a,10), 60), with base_delay 100ms for Transient,
\* 500ms for Network, 1000ms for ServiceUnavailable, 5000ms for
\* ResourceExhaustion and 100ms for the five other built-ins.
C1_BuiltinDelayFormula ==
    BuiltinDelayReturned =>
        last.delay = SpecBaseDelay(last.cat.builtin) * SpecMultiplier(last.attempt)

C1_Witness ==
    /\ last.op = "BuiltinCategory::retry_delay"
    /\ last.cat = Builtin("ResourceExhaustion")
    /\ last.attempt = USIZE(3)
    /\ last.delay = 40000

\* C2: among the nine built-ins is_retriable() is true exactly for Transient,
\* Network, ServiceUnavailable and ResourceExhaustion and false for Permanent,
\* Authentication, Validation, Internal and Unknown; ErrorCategory::Builtin(C)
\* answers as C does.
C2_RetriableExactlyFour ==
    /\ last.op \in { "BuiltinCategory::is_retriable", "ErrorCategory::is_retriable" }
          /\ last.cat.kind = "Builtin"
       => /\ last.cat.builtin \in SpecRetriable => last.flag
          /\ last.cat.builtin \in { "Permanent", "Authentication", "Validation",
                                    "Internal", "Unknown" } => ~last.flag
          /\ last.cat.builtin \in BuiltinCategory
    /\ last.op = "ErrorCategory::is_retriable" /\ last.cat.kind = "Builtin"
       => last.flag = BuiltinCategory_is_retriable(last.cat.builtin)

C2_Witness ==
    /\ last.op = "ErrorCategory::is_retriable"
    /\ last.cat = Builtin("ResourceExhaustion")
    /\ last.flag

\* C3: for a retriable built-in C and attempts a1 < a2 <= 10, retry_delay(C, a2)
\* >= retry_delay(C, a1); and the delay of an attempt whose multiplier is not yet
\* saturated (2^a < 60) is strictly below the delay of the next attempt.
C3_MonotoneUpToSaturation ==
    BuiltinDelayReturned /\ last.cat.builtin \in SpecRetriable /\ last.attempt \in Below(11)
    => /\ \A a1 \in 0..(Small(last.attempt) - 1) :
             BuiltinCategory_retry_delay(last.cat.builtin, USIZE(a1)) <= last.delay
       /\ \A a1 \in 0..(Small(last.attempt) - 1) :
             a1 + 1 = Small(last.attempt) /\ 2^a1 < 60
             => BuiltinCategory_retry_delay(last.cat.builtin, USIZE(a1)) < last.delay

C3_Witness ==
    /\ last.op = "ErrorCategory::retry_delay"
    /\ last.cat = Builtin("Network")
    /\ last.attempt = USIZE(3)
    /\ BuiltinCategory_retry_delay("Network", USIZE(1)) = 1000
    /\ BuiltinCategory_retry_delay("Network", USIZE(2)) = 2000
    /\ last.delay = 4000

\* C4: the built-in backoff is capped: retry_delay(C, attempt) <= 60 * base_delay(C)
\* for every attempt, and = 60 * base_delay(C) for every attempt >= 6; for Network
\* that is 30000ms whatever the attempt.
C4_BuiltinDelayCapped ==
    BuiltinDelayReturned
    => /\ last.delay <= 60 * SpecBaseDelay(last.cat.builtin)
       /\ last.attempt \notin Below(6) => last.delay = 60 * SpecBaseDelay(last.cat.builtin)
       /\ last.attempt \notin Below(6) /\ last.cat.builtin = "Network" => last.delay = 30000

C4_Witness ==
    /\ last.op = "ErrorCategory::retry_delay"
    /\ last.cat = Builtin("Network")
    /\ last.attempt = USIZE_MAX
    /\ last.delay = 30000

\* C5: TylError::category() maps an error to one category fixed by its variant
\* alone: Database -> Transient, Network -> Network, Validation -> Validation,
\* NotFound/Conflict/Configuration/NotImplemented -> Permanent, Internal ->
\* Internal, Custom -> Custom(clone of the embedded classifier).
C5_CategoryByVariant ==
    last.op = "TylError::category"
    => /\ err.variant = "Database" => last.cat = Builtin("Transient")
       /\ err.variant = "Network" => last.cat = Builtin("Network")
       /\ err.variant = "Validation" => last.cat = Builtin("Validation")
       /\ err.variant \in { "NotFound", "Conflict", "Configuration", "NotImplemented" }
          => last.cat = Builtin("Permanent")
       /\ err.variant = "Internal" => last.cat = Builtin("Internal")
       /\ err.variant = "Custom"
          => /\ last.cat.kind = "Custom"
             /\ last.cat.classifier = err.classifier
       /\ last.cat.kind \in { "Builtin", "Custom" }

C5_Witness ==
    /\ last.op = "TylError::category"
    /\ err = TylError_conflict("timeout")
    /\ last.cat = Builtin("Permanent")

\* C6: e.should_retry(a) is true iff e.category().is_retriable() and a < the
\* process-wide max_retries; so it is false for every attempt when the category
\* is not retriable and for every attempt >= max_retries (max_retries = 0 too).
C6_ShouldRetryIff ==
    last.op \in { "TylError::should_retry", "RetryableError::should_retry" }
    => /\ last.flag = ( /\ ErrorCategory_is_retriable(TylError_category(err))
                        /\ settings.init
                        /\ last.attempt \in Below(Small(settings.max_retries)) )
       /\ ErrorCategory_is_retriable(TylError_category(err)) => settings = LoadSettings(env)
       /\ err.variant \in { "Validation", "NotFound", "Conflict", "Internal",
                            "Configuration", "NotImplemented" } => ~last.flag
       /\ settings.init /\ settings.max_retries = USIZE(0) => ~last.flag

C6_Witness ==
    /\ last.op = "RetryableError::should_retry"
    /\ err = TylError_database("timeout")
    /\ env.TYL_ERROR_MAX_RETRIES = Val(<<"+", "5">>)
    /\ settings.max_retries = USIZE(5)
    /\ last.attempt = USIZE(4)
    /\ last.flag

\* min(base_delay * backoff_multiplier^(attempt-1), max_delay) in whole
\* milliseconds, for attempt >= 1.  For the attempts of HugeAttempts the power
\* of a multiplier above 1 is beyond every max_delay.
SpecPolicyDelay(p, a) ==
    LET m == p.backoff_multiplier
        e == Small(a) - 1
        exponential == IF a \in HugeAttempts
                       THEN IF p.base_delay > 0 /\ m.num > m.den
                            THEN p.max_delay ELSE p.base_delay
                       ELSE (p.base_delay * m.num^e) \div (m.den^e)
    IN  IF exponential < p.max_delay THEN exponential ELSE p.max_delay

\* C7: with jitter disabled calculate_delay(0) is 0 and, for every attempt >= 1,
\* calculate_delay(attempt) = min(base_delay * backoff_multiplier^(attempt-1),
\* max_delay) in whole milliseconds (standard policy: 100ms, 200ms, 400ms at
\* attempts 1, 2, 3); calculate_delay(0) is 0 with jitter enabled too.
C7_DelayIsCappedExponential ==
    last.op = "RetryPolicy::calculate_delay"
    => /\ last.attempt = USIZE(0) => last.delay = 0
       /\ last.attempt # USIZE(0) /\ ~policy.jitter
          => last.delay = SpecPolicyDelay(policy, last.attempt)

\* C8: with jitter enabled, for every policy and attempt a >= 1, calculate_delay(a)
\* lies within [0.75 * d, 1.25 * d], d being what calculate_delay(a) returns for
\* the same policy with jitter disabled, whatever the jitter source produces.
C8_JitterWithinQuarter ==
    last.op = "RetryPolicy::calculate_delay" /\ policy.jitter /\ last.attempt # USIZE(0)
    => LET d == RetryPolicy_calculate_delay(RetryPolicy_with_jitter(policy, FALSE),
                                            last.attempt, -1)
       IN  /\ 75 * d <= 100 * last.delay
           /\ 100 * last.delay <= 125 * d

\* C9: for every RetryPolicy, jitter enabled or not, and every attempt,
\* calculate_delay(attempt) never exceeds the policy's max_delay.
C9_NeverAboveMaxDelay ==
    last.op = "RetryPolicy::calculate_delay" => last.delay <= policy.max_delay

\* C10: p.should_retry(a) is true iff a < p.max_attempts, whatever the error
\* category and the process-wide max_retries; never true with max_attempts = 0.
C10_PolicyShouldRetryIff ==
    last.op = "RetryPolicy::should_retry"
    => /\ last.flag = (last.attempt \in Below(Small(policy.max_attempts)))
       /\ policy.max_attempts = USIZE(0) => ~last.flag

C10_Witness ==
    /\ last.op = "RetryPolicy::should_retry"
    /\ policy = RetryPolicy_slow
    /\ last.attempt = USIZE(4)
    /\ last.flag
    /\ err.variant = "Validation"
    /\ settings.init
    /\ settings.max_retries = USIZE(0)

\* What the classifiers of the repository's tests answer, as the tests state it.
SpecClassifierRetriable(c) == c.impl \in { "PaymentProcessingError", "TestCategory" }
SpecClassifierDelay(c, n) ==
    CASE c.impl = "PaymentProcessingError" -> n * 2000
      [] c.impl = "TestCategory" -> n * 100
      [] c.impl = "BusinessLogicError" -> 0
SpecClassifierName(c) ==
    CASE c.impl = "PaymentProcessingError" -> "PaymentProcessing"
      [] c.impl = "TestCategory" -> "Test"
      [] c.impl = "BusinessLogicError" -> "BusinessLogic"

\* the last call was a method of a category, asked directly, through
\* TylError::category(), or through the category of a clone of the error
Asking(method) ==
    last.op \in { Via(TRUE, method), Via(FALSE, method) }
AnswerIsOf(c) ==
    /\ last.op = "ErrorCategory::is_retriable" \/ Asking("is_retriable")
       => last.flag = SpecClassifierRetriable(c)
    /\ last.op = "ErrorCategory::retry_delay" \/ Asking("retry_delay")
       => /\ last.attempt \in SmallAttempts
             => last.delay = SpecClassifierDelay(c, Small(last.attempt))
          /\ last.delay = Classifier_retry_delay(c, last.attempt)
    /\ last.op = "ErrorCategory::category_name" \/ Asking("category_name")
       => last.name = SpecClassifierName(c)

\* C11: ErrorCategory::Custom(c) returns exactly c.is_retriable(), c.retry_delay(n)
\* and c.category_name(); the category of TylError::business_logic(msg, c), and of
\* a clone of that error, returns the same three answers.
C11_CustomIsTransparent ==
    /\ last.op \in { "ErrorCategory::is_retriable", "ErrorCategory::retry_delay",
                      "ErrorCategory::category_name" } /\ last.cat.kind = "Custom"
       => AnswerIsOf(last.cat.classifier)
    /\ (Asking("is_retriable") \/ Asking("retry_delay") \/ Asking("category_name"))
          /\ err.variant = "Custom"
       => /\ last.cat.kind = "Custom"
          /\ AnswerIsOf(err.classifier)

C11_Witness ==
    /\ last.op = Via(TRUE, "retry_delay")
    /\ err = TylError_business_logic("timeout", PaymentProcessingError)
    /\ last.attempt = USIZE(3)
    /\ last.delay = 6000

\* the caller has just read back the JSON of the error it holds
RoundTripped ==
    /\ last.op = "serde_json::from_str"
    /\ err # NoError
    /\ wire = TylError_serialize(err)

\* C12: serializing then deserializing a TylError::Custom built with any
\* classifier gives a Custom error with the same message whose category reports
\* category_name() = "Unknown", is_retriable() = false and the retry_delay of the
\* Unknown built-in, whatever the original classifier answered.
C12_CustomComesBackUnknown ==
    RoundTripped /\ err.variant = "Custom"
    => /\ back.variant = "Custom"
       /\ back.message = err.message
       /\ ErrorCategory_category_name(TylError_category(back)) = "Unknown"
       /\ ~ErrorCategory_is_retriable(TylError_category(back))
       /\ \A a \in Attempts :
             ErrorCategory_retry_delay(TylError_category(back), a)
                = SpecBaseDelay("Unknown") * SpecMultiplier(a)

C12_Witness ==
    /\ RoundTripped
    /\ err = TylError_business_logic("timeout", PaymentProcessingError)
    /\ ErrorCategory_is_retriable(TylError_category(err))
    /\ back.message = "timeout"
    /\ back.classifier = BuiltinClassifier("Unknown")

\* C13: for each of the eight non-Custom variants and all field values,
\* serializing then deserializing gives the same variant with identical field
\* values, hence the same display string and the same category.
C13_PlainVariantsRoundTrip ==
    RoundTripped /\ err.variant # "Custom"
    => /\ back.variant = err.variant
       /\ back = err
       /\ TylError_to_string(back) = TylError_to_string(err)
       /\ TylError_category(back) = TylError_category(err)

C13_Witness ==
    /\ RoundTripped
    /\ err = TylError_not_found("email", "timeout")
    /\ wire = [tag |-> "NotFound", fields |-> [resource |-> "email", id |-> "timeout"]]
    /\ back.resource = "email"
    /\ back.id = "timeout"
    /\ TylError_to_string(back) = << "Not found: ", "email", " with id ", "timeout" >>

\* C14: e.to_context(op) returns a context with operation = op, message = e's
\* display string, a category answering exactly as e.category() does,
\* attempt_count = 1, empty metadata and a non-nil freshly generated error_id;
\* e itself is left unchanged.
C14_ToContextSnapshot ==
    [][ last'.op = "TylError::to_context"
        => /\ err' = err
           /\ ctx'.operation = last'.name
           /\ ctx'.message = TylError_to_string(err)
           /\ ctx'.category = TylError_category(err)
           /\ ErrorCategory_is_retriable(ctx'.category)
                 = ErrorCategory_is_retriable(TylError_category(err))
           /\ ErrorCategory_category_name(ctx'.category)
                 = ErrorCategory_category_name(TylError_category(err))
           /\ \A a \in Attempts :
                 ErrorCategory_retry_delay(ctx'.category, a)
                    = ErrorCategory_retry_delay(TylError_category(err), a)
           /\ ctx'.attempt_count = USIZE(1)
           /\ DOMAIN ctx'.metadata = {}
           /\ ctx'.error_id \in Uuids
           /\ ctx'.error_id # NilUuid ]_vars

C14_Witness ==
    /\ last.op = "TylError::to_context"
    /\ err = TylError_database("timeout")
    /\ ctx.operation = "save_user"
    /\ ctx.message = << "Database error: ", "timeout" >>
    /\ ErrorCategory_category_name(ctx.category) = "Transient"
    /\ ctx.attempt_count = USIZE(1)

\* the increment_attempt() calls made on the context so far
Increments == Cardinality({ i \in DOMAIN calls : calls[i].op = "increment" })

\* C15: a new ErrorContext has attempt_count = 1, and after any sequence of
\* operations attempt_count is 1 plus the number of increment_attempt() calls
\* made so far: always >= 1, never decreasing, and the next increment_attempt()
\* always adds one more.
C15_AttemptCountTracksIncrements ==
    /\ [](ctx # NoContext
          => /\ ctx.attempt_count = USIZE(1 + Increments)
             /\ ~ULt(ctx.attempt_count, USIZE(1))
             /\ calls = <<>> => ctx.attempt_count = USIZE(1)
             /\ ErrorContext_increment_attempt(ctx).attempt_count
                   = USIZE(Small(ctx.attempt_count) + 1))
    /\ [][ctx # NoContext /\ calls' # <<>>
           => ~ULt(ctx'.attempt_count, ctx.attempt_count)]_vars

C15_Witness ==
    /\ ctx # NoContext
    /\ last.op = "ErrorContext::increment_attempt"
    /\ calls = << Incremented, Cleared, Incremented >>
    /\ ctx.attempt_count = USIZE(3)

\* the calls made since the last clear_metadata()
SinceClear ==
    LET clears == { i \in DOMAIN calls : calls[i].op = "clear" }
        from == IF clears = {} THEN 1
                ELSE (CHOOSE i \in clears : \A j \in clears : j <= i) + 1
    IN  SubSeq(calls, from, Len(calls))

\* the value of the most recent insert for key k since the last clear, if any
LatestInsert(k) ==
    LET at == { i \in DOMAIN SinceClear :
                  SinceClear[i].op = "insert" /\ SinceClear[i].key = k }
    IN  IF at = {} THEN [some |-> FALSE, value |-> ""]
        ELSE [some |-> TRUE,
              value |-> SinceClear[CHOOSE i \in at : \A j \in at : j <= i].value]

\* C16: after any sequence of with_metadata, add_metadata and clear_metadata
\* calls, get_metadata(k) returns the value of the most recent insert for k since
\* the last clear (none if there was none), has_metadata(k) is true exactly when
\* get_metadata(k) returns a value, metadata_count() is the number of distinct
\* keys inserted since the last clear, and with_metadata and add_metadata have
\* the same effect on the metadata.
C16_MetadataLastWriteWins ==
    ctx # NoContext
    => /\ \A k \in MetadataKeys :
             /\ ErrorContext_get_metadata(ctx, k) = LatestInsert(k)
             /\ ErrorContext_has_metadata(ctx, k) = ErrorContext_get_metadata(ctx, k).some
       /\ ErrorContext_metadata_count(ctx)
             = Cardinality({ k \in MetadataKeys : LatestInsert(k).some })
       /\ \A k \in MetadataKeys, v \in MetadataValues :
             ErrorContext_with_metadata(ctx, k, v).metadata
                = ErrorContext_add_metadata(ctx, k, v).metadata
       /\ last.op = "ErrorContext::get_metadata"
          => last.flag = LatestInsert(last.key).some /\ last.value = LatestInsert(last.key).value
       /\ last.op = "ErrorContext::has_metadata" => last.flag = LatestInsert(last.key).some
       /\ last.op = "ErrorContext::metadata_count"
          => last.attempt = USIZE(Cardinality({ k \in MetadataKeys : LatestInsert(k).some }))

C16_Witness ==
    /\ last.op = "ErrorContext::get_metadata"
    /\ last.key = "endpoint"
    /\ calls = << Inserted("timeout_ms", "5000"), Cleared,
                  Inserted("endpoint", "5000"), Inserted("endpoint", "\"/api/users\"") >>
    /\ last.flag
    /\ last.value = "\"/api/users\""
    /\ ErrorContext_metadata_count(ctx) = 1

\* C17: when several threads call ErrorSettings::global() concurrently for the
\* first time, under every interleaving exactly one settings value is installed
\* in the cache, and every caller, in every thread, then and later, receives
\* that same value.
C17_InitializedOnce ==
    /\ once.ran <= 1
    /\ settings.init <=> once.ran = 1
    /\ \A t \in Threads :
          threads[t].pc = "returned"
          => /\ once.ran = 1
             /\ threads[t].got.init
             /\ threads[t].got = settings
    /\ \A t, u \in Threads :
          threads[t].pc = "returned" /\ threads[u].pc = "returned"
          => threads[t].got = threads[u].got

C17_Witness ==
    /\ last.op = "ErrorSettings::global after waiting"
    /\ \A t \in Threads : threads[t].pc = "returned"
    /\ once.ran = 1
    /\ settings.max_retries = USIZE(2)
    /\ env.TYL_ERROR_MAX_RETRIES = Val(<<"+", "5">>)
    /\ threads["t1"].got = threads["t2"].got

\* the step is the return of the first access: it fills the settings cache
FirstAccess == ~settings.init /\ settings'.init

\* the step is the closure's std::env::var call named read, made by the thread t
ClosureReadBy(t, read) == threads[t].pc = read /\ threads'[t].pc # read

\* C18: once ErrorSettings::global() has returned for the first time, every later
\* read of backtrace_enabled, max_retries, log_errors and log_level (directly, or
\* through TylError's accessors and should_retry) returns the values computed at
\* that first access, whatever is done to the environment variables afterwards.
C18_SettingsNeverReloaded ==
    [][ /\ FirstAccess => threads[Caller].pc = "loaded" /\ settings' = threads[Caller].got
        /\ settings.init
           => /\ settings' = settings
              /\ last'.op \in { "ErrorSettings::global", "TylError::backtrace_enabled" }
                 => last'.flag = settings.backtrace_enabled
              /\ last'.op \in { "ErrorSettings::global", "TylError::max_retries" }
                 => last'.attempt = settings.max_retries
              /\ last'.op = "TylError::log_errors_enabled" => last'.flag = settings.log_errors
              /\ last'.op \in { "ErrorSettings::global", "TylError::log_level" }
                 => last'.level = settings.log_level
              /\ last'.op = "TylError::should_retry" /\ err.variant = "Database"
                 => last'.flag = (last'.attempt \in Below(Small(settings.max_retries))) ]_vars

C18_Witness ==
    /\ last.op = "TylError::should_retry"
    /\ err = TylError_database("timeout")
    /\ env.TYL_ERROR_MAX_RETRIES = Val(<<"0">>)
    /\ env.TYL_ERROR_LOG_LEVEL = Val(<<"D", "e", "b", "u", "g">>)
    /\ settings.init
    /\ settings.max_retries = USIZE(3)
    /\ settings.log_level = LogLevel_Info
    /\ settings # LoadSettings(env)
    /\ last.flag

\* the level the specification gives for a value of TYL_ERROR_LOG_LEVEL
SpecLogLevel(v) ==
    CASE v = Val(<<"e", "r", "r", "o", "r">>) -> LogLevel_Error
      [] v \in { Val(<<"W", "a", "r", "n">>), Val(<<"w", "a", "r", "n", "i", "n", "g">>) }
            -> LogLevel_Warn
      [] v = Val(<<"I", "N", "F", "O">>) -> LogLevel_Info
      [] v = Val(<<"D", "e", "b", "u", "g">>) -> LogLevel_Debug
      [] OTHER -> LogLevel_Info

\* C19: the configured log level is Error for "ERROR", Warn for "WARN" or
\* "WARNING", Info for "INFO" and Debug for "DEBUG", compared case-insensitively,
\* and Info whenever TYL_ERROR_LOG_LEVEL is absent or holds any other string.
C19_LogLevelParsed ==
    [][ /\ \A t \in DOMAIN threads :
              ClosureReadBy(t, "TYL_ERROR_LOG_LEVEL")
              => threads'[t].got.log_level = SpecLogLevel(env.TYL_ERROR_LOG_LEVEL)
        /\ FirstAccess
           => /\ settings'.log_level = threads[Caller].got.log_level
              /\ last'.op \in { "ErrorSettings::global", "TylError::log_level" }
                 => last'.level = threads[Caller].got.log_level ]_vars

\* the flag the specification gives for the two backtrace variables
SpecBacktrace(e) ==
    IF e.TYL_ERROR_BACKTRACE.set
    THEN e.TYL_ERROR_BACKTRACE = Val(<<"T", "r", "u", "e">>)
    ELSE e.RUST_BACKTRACE.set

\* C20: TYL_ERROR_BACKTRACE is checked first and RUST_BACKTRACE is only a
\* fallback: when TYL_ERROR_BACKTRACE is set, backtrace_enabled is true iff its
\* value equals "true" case-insensitively, whatever RUST_BACKTRACE holds; when it
\* is absent, backtrace_enabled is true iff RUST_BACKTRACE is set.
C20_BacktraceFallback ==
    [][ /\ \A t \in DOMAIN threads :
              /\ ClosureReadBy(t, "TYL_ERROR_BACKTRACE")
                 => IF env.TYL_ERROR_BACKTRACE.set
                    THEN /\ threads'[t].pc = "TYL_ERROR_MAX_RETRIES"
                         /\ threads'[t].got.backtrace_enabled = SpecBacktrace(env)
                    ELSE threads'[t].pc = "RUST_BACKTRACE"
              /\ ClosureReadBy(t, "RUST_BACKTRACE")
                 => threads'[t].got.backtrace_enabled = env.RUST_BACKTRACE.set
        /\ FirstAccess => settings'.backtrace_enabled = threads[Caller].got.backtrace_enabled
      ]_vars

\* the flag RUST_BACKTRACE gives when it alone decides: set or not
SpecRustBacktraceAlone(e) == e.RUST_BACKTRACE.set

\* C21: RUST_BACKTRACE overrides TYL_ERROR_BACKTRACE: when both variables are
\* set, backtrace_enabled is determined by RUST_BACKTRACE and not by the value
\* of TYL_ERROR_BACKTRACE.
C21_RustBacktraceOverrides ==
    [][ \A t \in DOMAIN threads :
           /\ ClosureReadBy(t, "TYL_ERROR_BACKTRACE")
           /\ threads'[t].pc = "TYL_ERROR_MAX_RETRIES"
           /\ env.TYL_ERROR_BACKTRACE.set /\ env.RUST_BACKTRACE.set
           => threads'[t].got.backtrace_enabled = SpecRustBacktraceAlone(env) ]_vars

\* the order of the levels in the specification: Error < Warn < Info < Debug
SpecLevelOrder == << LogLevel_Error, LogLevel_Warn, LogLevel_Info, LogLevel_Debug >>
SpecLevelRank(level) == CHOOSE i \in 1..4 : SpecLevelOrder[i] = level
SpecLevelName(level) == << "ERROR", "WARN", "INFO", "DEBUG" >>[SpecLevelRank(level)]

\* the line the specification has written: "[LEVELNAME] <display string>"
SpecLogLine(level, e) == << "[", SpecLevelName(level), "] " >> \o TylError_to_string(e)

\* C22: for every error and level, log_if_enabled(level) writes exactly one line
\* "[LEVELNAME] <display string>" to the diagnostic stream when log_errors is
\* enabled and level <= the configured log level under the order
\* Error < Warn < Info < Debug, and writes nothing otherwise; with the default
\* level Info, Debug messages are never written.
C22_LogIfEnabled ==
    [][ last'.op = "TylError::log_if_enabled"
        => /\ IF /\ settings'.log_errors
                 /\ SpecLevelRank(last'.level) <= SpecLevelRank(settings'.log_level)
              THEN stderr' = Append(stderr, SpecLogLine(last'.level, err))
              ELSE stderr' = stderr
           /\ settings'.log_level = LogLevel_Info /\ last'.level = LogLevel_Debug
              => stderr' = stderr ]_vars

C22_Witness ==
    /\ last.op = "TylError::log_if_enabled"
    /\ last.level = LogLevel_Warn
    /\ settings.log_errors
    /\ settings.log_level = LogLevel_Warn
    /\ err = TylError_network("timeout")
    /\ stderr = << << "[", "WARN", "] ", "Network error: ", "timeout" >> >>

\* the policy the specification lists for a preset: attempts, base delay and cap
\* in milliseconds, multiplier as a fraction; every preset has jitter enabled
SpecPolicyOf(attempts, base_ms, cap_ms, num, den) ==
    [ max_attempts |-> <<0, 0, 0, attempts>>, base_delay |-> base_ms, max_delay |-> cap_ms,
      backoff_multiplier |-> [num |-> num, den |-> den], jitter |-> TRUE ]

SpecPreset(op) ==
    CASE op = "RetryPolicy::fast" -> SpecPolicyOf(3, 50, 1000, 3, 2)
      [] op = "RetryPolicy::slow" -> SpecPolicyOf(5, 500, 60000, 2, 1)
      [] op = "RetryPolicy::network" -> SpecPolicyOf(4, 250, 30000, 2, 1)
      [] op = "RetryPolicy::database" -> SpecPolicyOf(3, 100, 10000, 2, 1)
      [] op \in { "RetryPolicy::standard", "RetryPolicy::new", "RetryPolicy::default" }
            -> SpecPolicyOf(3, 100, 30000, 2, 1)

\* C23: the preset constructors return exactly these policies, all with jitter
\* enabled: fast = (3 attempts, 50ms base, 1s cap, x1.5), slow = (5, 500ms, 60s,
\* x2.0), network = (4, 250ms, 30s, x2.0), database = (3, 100ms, 10s, x2.0), and
\* standard() = new() = default = (3, 100ms, 30s, x2.0).
C23_PresetsAsListed ==
    last.op \in { "RetryPolicy::fast", "RetryPolicy::slow", "RetryPolicy::network",
                  "RetryPolicy::database", "RetryPolicy::standard", "RetryPolicy::new",
                  "RetryPolicy::default" }
    => policy = SpecPreset(last.op)

C23_Witness ==
    /\ last.op = "RetryPolicy::slow"
    /\ policy.max_attempts = USIZE(5)
    /\ policy.base_delay = 500
    /\ policy.max_delay = 60000
    /\ policy.jitter

\* the message the specification gives a convenience constructor: prefix, then msg
SpecPrefixed(prefix, msg) ==
    CASE msg = "" -> prefix
      [] msg = "timeout" /\ prefix = "Serialization error: " -> "Serialization error: timeout"
      [] msg = "timeout" /\ prefix = "Connection error: " -> "Connection error: timeout"
      [] msg = "timeout" /\ prefix = "Initialization error: " -> "Initialization error: timeout"

SugarOps ==
    { "TylError::parsing", "TylError::serialization", "TylError::connection",
      "TylError::initialization" }

\* C24: the convenience constructors are pure sugar: for every msg, parsing(msg)
\* equals validation("parsing", msg), serialization(msg) equals
\* internal("Serialization error: " + msg), connection(msg) equals
\* network("Connection error: " + msg) and initialization(msg) equals
\* internal("Initialization error: " + msg); so only connection errors among
\* them are retriable.
C24_ConvenienceConstructorsAreSugar ==
    /\ last.op = "TylError::parsing" => err = TylError_validation("parsing", last.value)
    /\ last.op = "TylError::serialization"
       => err = TylError_internal(SpecPrefixed("Serialization error: ", last.value))
    /\ last.op = "TylError::connection"
       => err = TylError_network(SpecPrefixed("Connection error: ", last.value))
    /\ last.op = "TylError::initialization"
       => err = TylError_internal(SpecPrefixed("Initialization error: ", last.value))
    /\ last.op \in SugarOps
       => ( ErrorCategory_is_retriable(TylError_category(err))
            <=> last.op = "TylError::connection" )

C24_Witness ==
    /\ last.op = "TylError::connection"
    /\ last.value = "timeout"
    /\ err = [variant |-> "Network", message |-> "Connection error: timeout"]
    /\ ErrorCategory_is_retriable(TylError_category(err))

\* C25: the built-in delay-multiplier computation never wraps: for every attempt
\* in the whole range of the attempt type (up to its maximum value),
\* 2^min(attempt,10) and min(multiplier,60) are computed without overflow in
\* 32-bit unsigned arithmetic, and retry_delay returns the exact product
\* base_delay * multiplier without panicking.
C25_BuiltinDelayNeverWraps ==
    last.op = "BuiltinCategory::retry_delay"
    => /\ ~last.overflow
       /\ last.attempt \in Below(6)
          => last.delay = SpecBaseDelay(last.cat.builtin) * 2^Small(last.attempt)
       /\ last.attempt \notin Below(6) => last.delay = SpecBaseDelay(last.cat.builtin) * 60

C25_Witness ==
    /\ last.op = "BuiltinCategory::retry_delay"
    /\ last.attempt = USIZE_MAX
    /\ last.cat = Builtin("ResourceExhaustion")
    /\ ~last.overflow
    /\ last.delay = 300000

\* the context the caller holds has just gone through JSON and back
ContextRoundTripped ==
    /\ last.op = "serde_json::from_str::<ErrorContext>"
    /\ ctx # NoContext
    /\ ctxWire = ErrorContext_serialize(ctx)

\* C26: serializing then deserializing an ErrorContext preserves the exact
\* values of all its fields: error_id, operation, message, occurred_at,
\* attempt_count, metadata, and the category (the deserialized context's category
\* reports the same name and retriability as the original's).
C26_ContextRoundTrip ==
    ContextRoundTripped
    => /\ ctxBack.error_id = ctx.error_id
       /\ ctxBack.operation = ctx.operation
       /\ ctxBack.message = ctx.message
       /\ ctxBack.occurred_at = ctx.occurred_at
       /\ ctxBack.attempt_count = ctx.attempt_count
       /\ ctxBack.metadata = ctx.metadata
       /\ ErrorCategory_category_name(ctxBack.category)
             = ErrorCategory_category_name(ctx.category)
       /\ ErrorCategory_is_retriable(ctxBack.category)
             = ErrorCategory_is_retriable(ctx.category)

\* C27: with jitter disabled and backoff_multiplier >= 1, calculate_delay is
\* non-decreasing in the attempt number over every attempt >= 1 the attempt type
\* can hold, including attempts whose exponent attempt-1 does not fit in a
\* signed 32-bit integer; once the delay has reached max_delay it stays at
\* max_delay for all larger attempts.
C27_DelayMonotoneOverAllAttempts ==
    /\ last.op = "RetryPolicy::calculate_delay"
    /\ ~policy.jitter
    /\ policy.backoff_multiplier.num >= policy.backoff_multiplier.den
    /\ last.attempt # USIZE(0)
    => \A a1 \in Attempts \ { USIZE(0) } :
          ULt(a1, last.attempt)
          => /\ RetryPolicy_calculate_delay(policy, a1, -1) <= last.delay
             /\ RetryPolicy_calculate_delay(policy, a1, -1) = policy.max_delay
                => last.delay = policy.max_delay

\* the fields of an ErrorContext fixed at construction
ConstructionFields == { "error_id", "operation", "category", "message", "occurred_at" }

\* contexts a and b differ at most in the field named
SameBut(a, b, field) ==
    /\ DOMAIN a = DOMAIN b
    /\ \A k \in DOMAIN a \ { field } : a[k] = b[k]

\* C28: on an ErrorContext, increment_attempt() changes only attempt_count, and
\* with_metadata / add_metadata / clear_metadata change only metadata; the query
\* operations get_metadata, has_metadata and metadata_count change nothing; so
\* error_id, operation, category, message and occurred_at keep their
\* construction-time values after any sequence of operations.
C28_ContextFrame ==
    [][ /\ last'.op = "ErrorContext::increment_attempt"
           => SameBut(ctx, ctx', "attempt_count")
        /\ last'.op \in { "ErrorContext::with_metadata", "ErrorContext::add_metadata",
                          "ErrorContext::clear_metadata" }
           => SameBut(ctx, ctx', "metadata")
        /\ last'.op \in { "ErrorContext::get_metadata", "ErrorContext::has_metadata",
                          "ErrorContext::metadata_count" }
           => ctx' = ctx
        /\ ctx # NoContext /\ last'.op # "ErrorContext::new"
           => \A k \in ConstructionFields : ctx'[k] = ctx[k] ]_vars

C28_Witness ==
    /\ last.op = "ErrorContext::clear_metadata"
    /\ calls = << Inserted("endpoint", "\"/api/users\""), Incremented, Incremented, Cleared >>
    /\ ctx.operation = "save_user"
    /\ ctx.category = ErrorCategory_network
    /\ ctx.attempt_count = USIZE(3)
    /\ ctx.metadata = EmptyMap

\* the retries the specification gives a finished loop
SpecRetries ==
    IF retryLoop.by = "RetryPolicy" THEN Small(retryLoop.subject.max_attempts)
    ELSE IF retryLoop.subject.variant \in { "Database", "Network" } THEN Small(settings.max_retries)
    ELSE 0

\* should_retry, asked again by a finished loop for the attempt a
AsksAgain(a) ==
    IF retryLoop.by = "RetryPolicy" THEN RetryPolicy_should_retry(retryLoop.subject, a)
    ELSE TylError_should_retry(retryLoop.subject, a, settings, threads[Caller])

\* C29: a caller loop that starts at attempt 0, retries while
\* should_retry(attempt) is true and increments attempt after each retry always
\* terminates: with TylError::should_retry it performs exactly max_retries
\* retries for a retriable error and none for a non-retriable one, with
\* RetryPolicy::should_retry exactly max_attempts retries; in both cases once
\* should_retry is false for an attempt it is false for every larger attempt.
C29_RetryLoopTerminates ==
    /\ [](retryLoop.pc = "done"
          => /\ retryLoop.retries = SpecRetries
             /\ retryLoop.attempt = USIZE(SpecRetries)
             /\ \A a \in Attempts : ~ULt(a, retryLoop.attempt) => ~AsksAgain(a))
    /\ (retryLoop.pc = "check" ~> retryLoop.pc = "done")

C29_Witness ==
    /\ retryLoop.pc = "done"
    /\ retryLoop.by = "TylError"
    /\ retryLoop.subject = TylError_database("timeout")
    /\ env.TYL_ERROR_MAX_RETRIES = Val(<<"+", "5">>)
    /\ retryLoop.retries = 5

\* C30: the definitions duplicated at the crate root (lib.rs) and those in the
\* category/error/context modules agree: for every error variant and every
\* attempt, category mapping, is_retriable, retry_delay, category_name, the
\* convenience constructors and the initial state built by ErrorContext::new /
\* to_context are the same in both.
C30_CrateRootAgreesWithModules ==
    /\ last.op = "lib::BuiltinCategory::is_retriable"
       => last.flag = BuiltinCategory_is_retriable(last.cat.builtin)
    /\ last.op = "lib::BuiltinCategory::retry_delay"
       => last.delay = BuiltinCategory_retry_delay(last.cat.builtin, last.attempt)
    /\ last.op = "lib::BuiltinCategory::category_name"
       => last.name = BuiltinCategory_category_name(last.cat.builtin)
    /\ last.op = "lib::TylError::category" => last.cat = TylError_category(err)
    /\ last.op = "lib::TylError::parsing" => err = TylError_parsing(last.value)
    /\ last.op = "lib::TylError::serialization" => err = TylError_serialization(last.value)
    /\ last.op = "lib::TylError::connection" => err = TylError_connection(last.value)
    /\ last.op = "lib::TylError::initialization" => err = TylError_initialization(last.value)
    /\ last.op = "lib::TylError::to_context"
       => ctx = TylError_to_context(err, last.name, ctx.error_id, ctx.occurred_at)
    /\ last.op = "lib::ErrorContext::new"
       => ctx = ErrorContext_new(last.name, last.cat, ctx.message, ctx.error_id,
                                 ctx.occurred_at)

C30_Witness ==
    /\ last.op = "lib::TylError::to_context"
    /\ err = TylError_business_logic("timeout", PaymentProcessingError)
    /\ ctx # NoContext
    /\ ctx.category = Custom(PaymentProcessingError)
    /\ ctx.message = << "Custom error: ", "timeout" >>

====
